---------------------------- MODULE Spec2Model ----------------------------
(***************************************************************************)
(* The CertificateVerification registry contract (preserve-on-revoke       *)
(* variant with IPFS CID) as a state machine: every external call of the   *)
(* contract is one atomic ledger transaction.  A reverted call changes no  *)
(* contract state; its revert reason is recorded in lastCall, which holds  *)
(* the call and its outcome until the caller has taken the outcome.        *)
(*                                                                         *)
(* Spec is the contract called directly by any account.  ServerSpec is the *)
(* HTTP server of backend/mainserver.js in front of the contract: its      *)
(* request handlers run interleaved, one step per await, and send their    *)
(* transactions from the server wallet, while another account calls the    *)
(* contract directly.                                                      *)
(***************************************************************************)
EXTENDS Integers, Sequences, FiniteSets, Bags, TLC

\* ------------------------------------------------------------------------
\* Bounds of the model
\* ------------------------------------------------------------------------
MaxHash == 2
MaxCidLen == 1
MaxTimestamp == 2

\* ------------------------------------------------------------------------
\* Value domains
\* ------------------------------------------------------------------------
\* bytes32(0)
ZeroHash == 0
\* address(0)
ZeroAddress == 0
\* every bytes32 value a caller can pass, the zero hash included
Hashes == ZeroHash..MaxHash
\* msg.sender of a transaction: two externally owned accounts, neither of them
\* address(0); the contract compares addresses for equality only, so that an
\* issuer and one other account cover every comparison it makes
Senders == {1, 2}
\* the byte value a CID is built from in the model: CIDs differ by length
CidBytes == {1}
\* every string a caller can pass as ipfsCID, the empty string included
CIDs == UNION {[1..n -> CidBytes] : n \in 0..MaxCidLen}
\* the empty string
EmptyString == <<>>

\* ------------------------------------------------------------------------
\* Revert reasons, tokenised word by word as they stand in the source
\* ------------------------------------------------------------------------
NoRevert == <<>>
MsgInvalidHash == <<"Invalid", "certificate", "hash">>
MsgInvalidCID == <<"Invalid", "IPFS", "CID">>
MsgDoesNotExist == <<"Certificate", "does", "not", "exist", "or", "has", "been", "revoked">>
MsgNotAuthorized == <<"Not", "authorized", ":", "only", "issuer", "can", "revoke">>
MsgAlreadyIssued == <<"Certificate", "already", "issued">>
MsgPreviouslyIssued == <<"Certificate", "was", "previously", "issued">>
\* the panic of checked arithmetic (solidity ^0.8) on underflow
MsgArithmeticPanic == <<"Panic", "0x11">>

VARIABLES certificates, totalIssued, totalRevoked, events, blockTimestamp,
          lastCall, prev, handlers, blockchain, ui

vars == <<certificates, totalIssued, totalRevoked, events, blockTimestamp,
          lastCall, prev, handlers, blockchain, ui>>

\* the start of the server: has startServer run initializeBlockchain, what did
\* it return, and is the variable contract defined
Blockchain(started, initialized, contract) ==
  [started |-> started, initialized |-> initialized, contract |-> contract]

\* the server after initializeBlockchain has returned true
BlockchainInitialized == Blockchain(TRUE, TRUE, TRUE)

\* the state of the React component App: its state variables and the callback
\* that is waiting to run
Ui(pc, mode, image, file, loading, error, result, qrImage) ==
  [pc |-> pc, mode |-> mode, image |-> image, file |-> file, loading |-> loading,
   error |-> error, result |-> result, qrImage |-> qrImage]

\* useState(false), useState(null): the component as it is mounted
InitialUi == Ui("idle", "none", "none", "none", FALSE, <<>>, "none", "none")

\* the value of a mapping slot that was never written
EmptyCertificate ==
  [isValid |-> FALSE, issuer |-> ZeroAddress, issuedAt |-> 0, ipfsCID |-> EmptyString]

\* the contract storage and event log, as one value
Ledger ==
  [certificates |-> certificates, totalIssued |-> totalIssued,
   totalRevoked |-> totalRevoked, events |-> events]

\* ------------------------------------------------------------------------
\* Modifiers and require conditions
\* ------------------------------------------------------------------------
validHash(certHash) == certHash # ZeroHash

\* the modifier validCID left out: any string is taken as a CID
validCID_Dropped(ipfsCID) == TRUE

validCID(ipfsCID) == Len(ipfsCID) > 0

\* the modifier certExists left out of revokeCertificate
certExists_AnyState(certHash) == TRUE

certExists(certHash) == certificates[certHash].isValid

\* onlyIssuer with the comparison against msg.sender left out
onlyIssuer_AnyCaller(certHash, sender) == TRUE

onlyIssuer(certHash, sender) == certificates[certHash].issuer = sender

\* the first require of issueCertificate left out
notAlreadyIssued_Dropped(certHash) == TRUE

notAlreadyIssued(certHash) == ~certificates[certHash].isValid

\* the second require of issueCertificate left out: only isValid is checked
notPreviouslyIssued_Dropped(certHash) == TRUE

notPreviouslyIssued(certHash) == certificates[certHash].issuer = ZeroAddress

\* issueCertificate storing the record without the CID
NewCertificate_NoCid(sender, timestamp, ipfsCID) ==
  [isValid |-> TRUE, issuer |-> sender, issuedAt |-> timestamp, ipfsCID |-> <<>>]

\* the struct written by issueCertificate
NewCertificate(sender, timestamp, ipfsCID) ==
  [isValid |-> TRUE, issuer |-> sender, issuedAt |-> timestamp, ipfsCID |-> ipfsCID]

\* revokeCertificate deleting the mapping slot instead of clearing isValid
RevokedCertificate_Deleted(cert) ==
  [isValid |-> FALSE, issuer |-> 0, issuedAt |-> 0, ipfsCID |-> <<>>]

\* revokeCertificate clearing the CID along with isValid
RevokedCertificate_ClearCid(cert) == [cert EXCEPT !.isValid = FALSE, !.ipfsCID = <<>>]

\* the struct left by revokeCertificate
RevokedCertificate(cert) == [cert EXCEPT !.isValid = FALSE]

\* a write that lands in every slot of the mapping
StoreCertificate_EverySlot(certs, certHash, cert) == [h \in DOMAIN certs |-> cert]

\* certificates[certHash] = cert
StoreCertificate(certs, certHash, cert) == [certs EXCEPT ![certHash] = cert]

\* issueCertificate without its totalIssued++
IssuedAfterIssue_NoIncrement(n) == n

\* totalIssued++
IssuedAfterIssue(n) == n + 1

\* revokeCertificate without its totalRevoked++
RevokedAfterRevoke_NoIncrement(n) == n

\* totalRevoked++
RevokedAfterRevoke(n) == n + 1

\* the reason issueCertificate reverts with, NoRevert when it goes through
IssueRevertReason(certHash, ipfsCID) ==
  IF ~validHash(certHash) THEN MsgInvalidHash
  ELSE IF ~validCID(ipfsCID) THEN MsgInvalidCID
  ELSE IF ~notAlreadyIssued(certHash) THEN MsgAlreadyIssued
  ELSE IF ~notPreviouslyIssued(certHash) THEN MsgPreviouslyIssued
  ELSE NoRevert

\* revokeCertificate with onlyIssuer placed before certExists
RevokeRevertReason_OwnerFirst(certHash, sender) ==
  IF ~validHash(certHash) THEN MsgInvalidHash
  ELSE IF ~onlyIssuer(certHash, sender) THEN MsgNotAuthorized
  ELSE IF ~certExists(certHash) THEN MsgDoesNotExist
  ELSE NoRevert

\* the reason revokeCertificate reverts with, NoRevert when it goes through
RevokeRevertReason(certHash, sender) ==
  IF ~validHash(certHash) THEN MsgInvalidHash
  ELSE IF ~certExists(certHash) THEN MsgDoesNotExist
  ELSE IF ~onlyIssuer(certHash, sender) THEN MsgNotAuthorized
  ELSE NoRevert

\* verifyCertificate with the modifier certExists added: an unknown key reverts
VerifyRevertReason_RequiresExisting(certHash) ==
  IF ~validHash(certHash) THEN MsgInvalidHash
  ELSE IF ~certExists(certHash) THEN MsgDoesNotExist
  ELSE NoRevert

\* the reason verifyCertificate reverts with, NoRevert when it answers
VerifyRevertReason(certHash) ==
  IF ~validHash(certHash) THEN MsgInvalidHash ELSE NoRevert

\* ------------------------------------------------------------------------
\* View functions
\* ------------------------------------------------------------------------
verifyCertificate(certHash) ==
  LET cert == certificates[certHash]
  IN  <<cert.isValid, cert.issuer, cert.issuedAt, cert.ipfsCID>>

\* what verifyCertificate returns for a slot that was never written
ZeroValueAnswer == <<FALSE, ZeroAddress, 0, EmptyString>>

checkValidity(certHash) == certificates[certHash].isValid

getStatistics == <<totalIssued, totalRevoked, totalIssued - totalRevoked>>

getCertificateDetails(certHash) ==
  LET cert == certificates[certHash]
      everIssued == cert.issuer # ZeroAddress
  IN  <<cert.isValid, cert.issuer, cert.issuedAt, cert.ipfsCID, everIssued>>

\* wasEverIssued answering from the isValid flag
wasEverIssued_FromValidFlag(certHash) == certificates[certHash].isValid

wasEverIssued(certHash) == certificates[certHash].issuer # ZeroAddress

\* ------------------------------------------------------------------------
\* Records of calls and events
\* ------------------------------------------------------------------------
Call(op, sender, certHash, ipfsCID, status, ret) ==
  [op |-> op, sender |-> sender, certHash |-> certHash, ipfsCID |-> ipfsCID,
   status |-> status, ret |-> ret]

\* no call is being answered
NoCall == Call("none", ZeroAddress, ZeroHash, EmptyString, NoRevert, <<>>)

CertificateIssued(certHash, issuer, ipfsCID) ==
  [name |-> "CertificateIssued", certHash |-> certHash, issuer |-> issuer,
   ipfsCID |-> ipfsCID]

CertificateRevoked(certHash) ==
  [name |-> "CertificateRevoked", certHash |-> certHash, issuer |-> ZeroAddress,
   ipfsCID |-> EmptyString]

\* an emit that writes its event twice
Emit_Twice(event) == events (+) SetToBag({event}) (+) SetToBag({event})

\* the event log after one more event; the log is kept as a bag, the number of
\* times each event was emitted, since no reader depends on the order
Emit(event) == events (+) SetToBag({event})


\* ------------------------------------------------------------------------
\* Transactions
\* ------------------------------------------------------------------------
\* issueCertificate counting the call before its checks and answering a failed
\* check without reverting
IssueCertificate_CountsAttempts(sender, certHash, ipfsCID) ==
  LET reason == IssueRevertReason(certHash, ipfsCID)
  IN  /\ lastCall = NoCall
      /\ prev' = Ledger
      /\ lastCall' = Call("issueCertificate", sender, certHash, ipfsCID, reason, <<>>)
      /\ UNCHANGED <<totalRevoked, blockTimestamp>>
      /\ totalIssued' = IssuedAfterIssue(totalIssued)
      /\ IF reason = NoRevert
         THEN /\ certificates' = StoreCertificate(certificates, certHash,
                                 NewCertificate(sender, blockTimestamp, ipfsCID))
              /\ events' = Emit(CertificateIssued(certHash, sender, ipfsCID))
         ELSE UNCHANGED <<certificates, events>>

IssueCertificate(sender, certHash, ipfsCID) ==
  LET reason == IssueRevertReason(certHash, ipfsCID)
  IN  /\ lastCall = NoCall
      /\ prev' = Ledger
      /\ lastCall' = Call("issueCertificate", sender, certHash, ipfsCID, reason, <<>>)
      /\ UNCHANGED <<totalRevoked, blockTimestamp>>
      /\ IF reason = NoRevert
         THEN /\ certificates' = StoreCertificate(certificates, certHash,
                                 NewCertificate(sender, blockTimestamp, ipfsCID))
              /\ totalIssued' = IssuedAfterIssue(totalIssued)
              /\ events' = Emit(CertificateIssued(certHash, sender, ipfsCID))
         ELSE UNCHANGED <<certificates, totalIssued, events>>

RevokeCertificate(sender, certHash) ==
  LET reason == RevokeRevertReason(certHash, sender)
  IN  /\ lastCall = NoCall
      /\ prev' = Ledger
      /\ lastCall' = Call("revokeCertificate", sender, certHash, EmptyString, reason, <<>>)
      /\ UNCHANGED <<totalIssued, blockTimestamp>>
      /\ IF reason = NoRevert
         THEN /\ certificates' = StoreCertificate(certificates, certHash,
                                 RevokedCertificate(certificates[certHash]))
              /\ totalRevoked' = RevokedAfterRevoke(totalRevoked)
              /\ events' = Emit(CertificateRevoked(certHash))
         ELSE UNCHANGED <<certificates, totalRevoked, events>>

\* ------------------------------------------------------------------------
\* Read-only calls (eth_call: the result does not depend on the caller, which
\* is recorded as address(0))
\* ------------------------------------------------------------------------
\* verifyCertificate declared without view and logging every query
VerifyCertificate_LogsQuery(certHash) ==
  LET reason == VerifyRevertReason(certHash)
  IN  /\ lastCall = NoCall
      /\ prev' = Ledger
      /\ lastCall' = Call("verifyCertificate", ZeroAddress, certHash, EmptyString, reason,
                          IF reason = NoRevert THEN verifyCertificate(certHash) ELSE <<>>)
      /\ events' = IF reason = NoRevert
                   THEN Emit([name |-> "CertificateVerified", certHash |-> certHash,
                              issuer |-> ZeroAddress, ipfsCID |-> EmptyString])
                   ELSE events
      /\ UNCHANGED <<certificates, totalIssued, totalRevoked, blockTimestamp>>

VerifyCertificate(certHash) ==
  LET reason == VerifyRevertReason(certHash)
  IN  /\ lastCall = NoCall
      /\ prev' = Ledger
      /\ lastCall' = Call("verifyCertificate", ZeroAddress, certHash, EmptyString, reason,
                          IF reason = NoRevert THEN verifyCertificate(certHash) ELSE <<>>)
      /\ UNCHANGED <<certificates, totalIssued, totalRevoked, events, blockTimestamp>>

GetStatistics ==
  /\ lastCall = NoCall
  /\ prev' = Ledger
  /\ lastCall' = IF totalRevoked <= totalIssued
                 THEN Call("getStatistics", ZeroAddress, ZeroHash, EmptyString, NoRevert,
                           getStatistics)
                 ELSE Call("getStatistics", ZeroAddress, ZeroHash, EmptyString,
                           MsgArithmeticPanic, <<>>)
  /\ UNCHANGED <<certificates, totalIssued, totalRevoked, events, blockTimestamp>>

GetCertificateDetails(certHash) ==
  /\ lastCall = NoCall
  /\ prev' = Ledger
  /\ lastCall' = Call("getCertificateDetails", ZeroAddress, certHash, EmptyString, NoRevert,
                      getCertificateDetails(certHash))
  /\ UNCHANGED <<certificates, totalIssued, totalRevoked, events, blockTimestamp>>

WasEverIssued(certHash) ==
  /\ lastCall = NoCall
  /\ prev' = Ledger
  /\ lastCall' = Call("wasEverIssued", ZeroAddress, certHash, EmptyString, NoRevert,
                      <<wasEverIssued(certHash)>>)
  /\ UNCHANGED <<certificates, totalIssued, totalRevoked, events, blockTimestamp>>

\* the caller has taken the outcome of its call
Return ==
  /\ lastCall # NoCall
  /\ lastCall' = NoCall
  /\ prev' = Ledger
  /\ UNCHANGED <<certificates, totalIssued, totalRevoked, events, blockTimestamp>>

\* the ledger mines a block: block.timestamp grows
MineBlock ==
  /\ lastCall = NoCall
  /\ blockTimestamp < MaxTimestamp
  /\ blockTimestamp' = blockTimestamp + 1
  /\ UNCHANGED <<certificates, totalIssued, totalRevoked, events, lastCall, prev>>


\* ------------------------------------------------------------------------
\* Error mapping of the HTTP issue handler (catch block)
\* ------------------------------------------------------------------------
\* String.prototype.includes on tokenised text
Includes(message, pattern) ==
  \E i \in 1..(Len(message) - Len(pattern) + 1) :
    SubSeq(message, i, i + Len(pattern) - 1) = pattern

\* the catch block of the issue endpoint without its 'IPFS' case
IssueErrorResponse_NoStorageCase(message) ==
  IF Includes(message, <<"already", "issued">>)
    THEN [statusCode |-> 400, errorMessage |-> <<"Certificate", "already", "issued">>]
  ELSE IF Includes(message, <<"Invalid", "certificate", "hash">>)
    THEN [statusCode |-> 400, errorMessage |-> <<"Invalid", "certificate", "hash">>]
  ELSE IF Includes(message, <<"insufficient", "funds">>)
    THEN [statusCode |-> 402, errorMessage |-> <<"Insufficient", "funds">>]
  ELSE [statusCode |-> 500, errorMessage |-> <<"Failed", "to", "issue", "certificate">>]

\* status code and message the issue endpoint answers with when the ledger
\* call throws an error with this message
IssueErrorResponse(message) ==
  IF Includes(message, <<"already", "issued">>)
    THEN [statusCode |-> 400, errorMessage |-> <<"Certificate", "already", "issued">>]
  ELSE IF Includes(message, <<"Invalid", "certificate", "hash">>)
    THEN [statusCode |-> 400, errorMessage |-> <<"Invalid", "certificate", "hash">>]
  ELSE IF Includes(message, <<"insufficient", "funds">>)
    THEN [statusCode |-> 402, errorMessage |-> <<"Insufficient", "funds">>]
  ELSE IF Includes(message, <<"IPFS">>)
    THEN [statusCode |-> 503, errorMessage |-> message]
  ELSE [statusCode |-> 500, errorMessage |-> <<"Failed", "to", "issue", "certificate">>]

\* ------------------------------------------------------------------------
\* The HTTP server (mainserver.js): value domains
\* ------------------------------------------------------------------------
\* wallet.address: the account every transaction of the server is sent from
ServerWallet == 1
\* an account that calls the contract directly, not through the server
OtherAccount == 2
\* the CID the other account issues with
OtherCid == <<1>>
\* the requests the server can be working on at the same time
Handlers == {1, 2}
\* the PDF files a client uploads
Files == {"pdfA", "pdfB"}
\* req.file is undefined
NoFile == "none"
\* a body field naming an issuer, which no handler reads
IssuerFields == {ServerWallet, OtherAccount}
\* the number of hex digits of a key
KeyHexLen == 64

\* text is a sequence of characters
HexLower == <<"0", "1", "2", "3", "4", "5", "6", "7", "8", "9", "a", "b", "c", "d", "e", "f">>
HexUpper == <<"0", "1", "2", "3", "4", "5", "6", "7", "8", "9", "A", "B", "C", "D", "E", "F">>
HexPrefix == <<"0", "x">>

\* [0-9a-fA-F]
IsHexChar(c) == \E i \in 1..16 : c \in {HexLower[i], HexUpper[i]}

HexCharValue(c) == (CHOOSE i \in 1..16 : c \in {HexLower[i], HexUpper[i]}) - 1

\* the numbers of the model are below 16^7: their hex digits from the eighth
\* on are zero
HexWidthOfNumbers == 7

\* the hex digit of weight 16^k of a number
HexDigitAt(n, k) == IF k >= HexWidthOfNumbers THEN 0 ELSE (n \div 16^k) % 16

\* digest('hex'): lower-case hex of fixed width
ToHex(n, width) == [i \in 1..width |-> HexLower[HexDigitAt(n, width - i) + 1]]

\* the number the last k digits of a hex text stand for
RECURSIVE FromHexDigits(_, _)
FromHexDigits(text, k) ==
  IF k = 0 THEN 0
  ELSE HexCharValue(text[Len(text) - k + 1]) * 16^(k - 1) + FromHexDigits(text, k - 1)

\* the number a hex text of a key of the model stands for
FromHex(text) ==
  FromHexDigits(text, IF Len(text) < HexWidthOfNumbers THEN Len(text) ELSE HexWidthOfNumbers)

\* a digest that maps every file to one number
Sha256_Colliding(pdfBuffer) == 1

\* the SHA-256 digest of a file, as a number: different files, different
\* digests, none of them zero
Sha256(pdfBuffer) == IF pdfBuffer = "pdfA" THEN 1 ELSE 2

\* the keys of the files
FileKeys == {Sha256(f) : f \in Files}

generatePDFHash(pdfBuffer) == ToHex(Sha256(pdfBuffer), KeyHexLen)

HasHexPrefix(text) == Len(text) >= 2 /\ SubSeq(text, 1, 2) = HexPrefix

\* hexString.replace(/^0x/, '')
StripHexPrefix(text) == IF HasHexPrefix(text) THEN SubSeq(text, 3, Len(text)) ELSE text

\* the outcome of a call that can throw
Threw(message) == [threw |-> TRUE, message |-> message, text |-> <<>>, number |-> 0]
Returned(text, number) == [threw |-> FALSE, message |-> <<>>, text |-> text, number |-> number]

hexToBytes32(hexString) ==
  LET cleanHex == StripHexPrefix(hexString)
  IN  IF Len(cleanHex) # KeyHexLen
      THEN Threw(<<"Invalid", "hex", "length">>)
      ELSE Returned(HexPrefix \o cleanHex, 0)

\* /^(0x)?[0-9a-fA-F]{64}$/.test(hash)
MatchesKeyPattern(hash) ==
  LET digits == IF HasHexPrefix(hash) THEN SubSeq(hash, 3, Len(hash)) ELSE hash
  IN  /\ Len(digits) = KeyHexLen
      /\ \A i \in 1..Len(digits) : IsHexChar(digits[i])

\* the bytes32 argument the contract object encodes a text into; it throws
\* for a text that is not 0x and 64 hex digits, before any request is sent
EncodeBytes32(text) ==
  IF /\ HasHexPrefix(text)
     /\ Len(text) = KeyHexLen + 2
     /\ \A i \in 3..Len(text) : IsHexChar(text[i])
  THEN Returned(text, FromHex(SubSeq(text, 3, Len(text))))
  ELSE Threw(<<"invalid", "BytesLike", "value">>)

\* the hex text of a key
HexOfKey(h) == ToHex(h, KeyHexLen)

\* texts that are not a key: too short, too long, with a letter that is no
\* hex digit
MalformedKeyStrings ==
  {SubSeq(HexOfKey(1), 1, KeyHexLen - 1),
   Append(HexOfKey(1), "0"),
   [HexOfKey(1) EXCEPT ![1] = "g"]}

\* the key texts a client sends
KeyStrings ==
  {HexOfKey(h) : h \in {ZeroHash} \cup FileKeys}
    \cup {HexPrefix \o HexOfKey(1)} \cup MalformedKeyStrings

\* req.body.qrData: text that JSON.parse turns into an object with type and
\* hash, text that JSON.parse rejects, or nothing
QrData(type, hash) == [given |-> TRUE, json |-> TRUE, type |-> type, hash |-> hash]
NotJson == [given |-> TRUE, json |-> FALSE, type |-> "", hash |-> <<>>]
NoQrData == [given |-> FALSE, json |-> FALSE, type |-> "", hash |-> <<>>]

QrInputs ==
  {NoQrData, NotJson, QrData("other", HexOfKey(1)), QrData("certificate", <<>>)}
    \cup {QrData("certificate", s) : s \in KeyStrings}

\* a JSON string literal
JsonString(chars) == <<"\"">> \o chars \o <<"\"">>

\* JSON.stringify of an object with the properties type, hash and version
JsonStringify(object) ==
  <<"{">> \o JsonString(<<"type">>) \o <<":">> \o JsonString(<<object.type>>)
    \o <<",">> \o JsonString(<<"hash">>) \o <<":">> \o JsonString(object.hash)
    \o <<",">> \o JsonString(<<"version">>) \o <<":">> \o JsonString(<<object.version>>)
    \o <<"}">>

\* the number of tokens of such a text around the characters of its hash
JsonFrameLen == 24

\* JSON.parse of a text, as the QR endpoints use its result: the properties
\* type and hash of the object, or the text is rejected
JsonParse(text) ==
  LET n == Len(text) - JsonFrameLen
  IN  IF /\ n >= 0
         /\ SubSeq(text, 1, 6) = <<"{">> \o JsonString(<<"type">>) \o <<":", "\"">>
         /\ SubSeq(text, 8, 14) = <<"\"", ",">> \o JsonString(<<"hash">>) \o <<":", "\"">>
         /\ SubSeq(text, 15 + n, 20 + n)
              = <<"\"", ",">> \o JsonString(<<"version">>) \o <<":">>
         /\ text[21 + n] = "\"" /\ text[23 + n] = "\"" /\ text[24 + n] = "}"
         /\ \A i \in 15..(14 + n) : text[i] # "\""
      THEN QrData(text[7], SubSeq(text, 15, 14 + n))
      ELSE NotJson

\* QRCode.toDataURL: the image of a text, as a data URL
QrToDataURL(text) == <<"data:image/png;base64,">> \o text

\* jsQR on the image: the text of the code
ScanQr(dataUrl) == Tail(dataUrl)

NoQrCode == <<>>

\* generateQRCode with the type of the payload left out
generateQRCode_NoType(certificateHash) ==
  QrToDataURL(JsonStringify([type |-> "", hash |-> certificateHash, version |-> "1.0"]))

generateQRCode(certificateHash) ==
  QrToDataURL(JsonStringify([type |-> "certificate", hash |-> certificateHash,
                             version |-> "1.0"]))

\* what a request carries
NoInput == [file |-> NoFile, issuer |-> ZeroAddress, qrData |-> NoQrData, hash |-> <<>>]

\* ------------------------------------------------------------------------
\* The HTTP server: responses
\* ------------------------------------------------------------------------
Data(bytes32Hash, isValid, issuer, issuedAt, ipfsCID) ==
  [bytes32Hash |-> bytes32Hash, isValid |-> isValid, issuer |-> issuer,
   issuedAt |-> issuedAt, ipfsCID |-> ipfsCID, qrCode |-> NoQrCode]

NoData == Data(ZeroHash, FALSE, ZeroAddress, 0, EmptyString)

Response(statusCode, success, message, data) ==
  [statusCode |-> statusCode, success |-> success, message |-> message, data |-> data]

NoResponse == Response(0, FALSE, <<>>, NoData)

\* the message of the error a reverting call or gas estimate throws
RevertError(reason) == <<"execution", "reverted", ":">> \o reason

\* the message of the error tx.wait() throws for a mined, reverted transaction
MsgTransactionReverted == <<"transaction", "execution", "reverted">>

MsgInsufficientFunds == <<"insufficient", "funds", "for", "intrinsic", "transaction", "cost">>

MsgIpfsUploadFailed == <<"IPFS", "upload", "failed", ":">>

\* the catch block of the issue endpoint
IssueError(message) ==
  LET e == IssueErrorResponse(message)
  IN  Response(e.statusCode, FALSE, e.errorMessage, NoData)

\* the catch block of the two revoke endpoints without its 'Not authorized'
\* case
RevokeError_NoAuthorizationCase(message) ==
  IF Includes(message, <<"does", "not", "exist">>)
    THEN Response(404, FALSE, <<"Certificate", "does", "not", "exist">>, NoData)
  ELSE Response(500, FALSE, <<"Failed", "to", "revoke", "certificate">>, NoData)

\* the catch block of the two revoke endpoints
RevokeError(message) ==
  IF Includes(message, <<"does", "not", "exist">>)
    THEN Response(404, FALSE, <<"Certificate", "does", "not", "exist">>, NoData)
  ELSE IF Includes(message, <<"Not", "authorized">>)
    THEN Response(403, FALSE, <<"Not", "authorized", "to", "revoke">>, NoData)
  ELSE Response(500, FALSE, <<"Failed", "to", "revoke", "certificate">>, NoData)

\* ------------------------------------------------------------------------
\* The HTTP server: request handlers
\* ------------------------------------------------------------------------
\* a handler that works on no request
IdleHandler ==
  [pc |-> "idle", route |-> "none", input |-> NoInput, from |-> ZeroAddress,
   bytes32Hash |-> ZeroHash, ipfsHash |-> EmptyString, receipt |-> "none",
   response |-> NoResponse, calls |-> {}]

\* res.json / res.status(..).json
Respond(request, response) == [request EXCEPT !.pc = "done", !.response = response]

\* the handler goes on to its next await
GoOn(request, pc) == [request EXCEPT !.pc = pc]

\* no call is being answered and no response is on its way to a client
Quiet ==
  /\ lastCall = NoCall
  /\ \A r \in Handlers : handlers[r].pc # "done"

\* the free handler with the lowest number
Free(r) ==
  /\ handlers[r].pc = "idle"
  /\ \A q \in Handlers : q < r => handlers[q].pc # "idle"

\* hexToBytes32 and contract.verifyCertificate on a key text: the error thrown
\* or the four values returned, and whether the call went out to the contract
Lookup(threw, message, bytes32Hash, result, called) ==
  [threw |-> threw, message |-> message, bytes32Hash |-> bytes32Hash,
   result |-> result, called |-> called]

KeyLookup(hexString) ==
  LET converted == hexToBytes32(hexString)
      argument == EncodeBytes32(converted.text)
      reason == VerifyRevertReason(argument.number)
  IN  IF converted.threw
        THEN Lookup(TRUE, converted.message, ZeroHash, ZeroValueAnswer, FALSE)
      ELSE IF argument.threw
        THEN Lookup(TRUE, argument.message, ZeroHash, ZeroValueAnswer, FALSE)
      ELSE IF reason # NoRevert
        THEN Lookup(TRUE, RevertError(reason), argument.number, ZeroValueAnswer, TRUE)
      ELSE Lookup(FALSE, <<>>, argument.number, verifyCertificate(argument.number), TRUE)

\* the request after its lookup
Looked(request, lookup) ==
  [request EXCEPT !.bytes32Hash = lookup.bytes32Hash,
                  !.calls = IF lookup.called THEN {"verifyCertificate"} ELSE {}]

\* the data of a response without the locator of the record
DataOf_NoLocator(lookup) ==
  Data(lookup.bytes32Hash, lookup.result[1], lookup.result[2], lookup.result[3],
       EmptyString)

\* the record a lookup found, as the data of a response
DataOf(lookup) ==
  Data(lookup.bytes32Hash, lookup.result[1], lookup.result[2], lookup.result[3],
       lookup.result[4])

\* the data of the success response of the issue endpoint; the QR code is
\* generated from the hex digest of the file
IssuedData(request) ==
  [Data(request.bytes32Hash, TRUE, ServerWallet, 0, request.ipfsHash)
     EXCEPT !.qrCode = generateQRCode(generatePDFHash(request.input.file))]

\* the account the transactions of a request are sent from, taken from the
\* request
TxSender_FromRequest(request) == request.input.issuer

\* the account the transactions of a request are sent from: the contract
\* object is bound to the wallet
TxSender(request) == ServerWallet

\* where a handler goes when its transaction was taken by the node, without
\* the await of tx.wait()
AfterSubmit_NoWait == "confirmed"

\* where a handler goes when its transaction was taken by the node
AfterSubmit == "wait"

\* ------------------------------------------------------------------------
\* Initial state: the constructor has run, no call was made, the server
\* works on no request
\* ------------------------------------------------------------------------
Init ==
  /\ certificates = [h \in Hashes |-> EmptyCertificate]
  /\ totalIssued = 0
  /\ totalRevoked = 0
  /\ events = EmptyBag
  /\ blockTimestamp = 1
  /\ lastCall = NoCall
  /\ prev = [certificates |-> [h \in Hashes |-> EmptyCertificate], totalIssued |-> 0,
             totalRevoked |-> 0, events |-> EmptyBag]
  /\ handlers = [r \in Handlers |-> IdleHandler]
  /\ blockchain = BlockchainInitialized
  /\ ui = InitialUi

\* POST /api/issue-certificate, from the arrival of the request to the answer
\* of the existence check
IssueCertificateRequest(r, file, issuerField) ==
  LET received == [IdleHandler EXCEPT !.route = "issue-certificate",
                                      !.input.file = file,
                                      !.input.issuer = issuerField]
      request == [received EXCEPT !.from = TxSender(received)]
      lookup == KeyLookup(generatePDFHash(file))
  IN  /\ Quiet
      /\ Free(r)
      /\ handlers' = [handlers EXCEPT ![r] =
           IF file = NoFile
             THEN Respond(request,
                          Response(400, FALSE, <<"No", "PDF", "file", "uploaded">>, NoData))
           ELSE IF lookup.threw
             THEN Respond(Looked(request, lookup), IssueError(lookup.message))
           ELSE IF lookup.result[1]
             THEN Respond(Looked(request, lookup),
                          Response(400, FALSE, <<"Certificate", "already", "issued">>,
                                   DataOf(lookup)))
           ELSE GoOn(Looked(request, lookup), "pin")]
      /\ UNCHANGED <<certificates, totalIssued, totalRevoked, events, blockTimestamp,
                     lastCall, prev>>

\* await uploadToPinata: the pinning service answers with a CID, or the upload
\* fails
UploadToPinata(r) ==
  /\ Quiet
  /\ handlers[r].pc = "pin"
  /\ LET request == [handlers[r] EXCEPT !.calls = @ \cup {"uploadToPinata"}]
     IN  \/ \E cid \in CIDs \ {EmptyString} :
               handlers' = [handlers EXCEPT ![r] =
                              [request EXCEPT !.pc = "submit", !.ipfsHash = cid]]
         \/ handlers' = [handlers EXCEPT ![r] =
                           Respond(request, IssueError(MsgIpfsUploadFailed))]
  /\ UNCHANGED <<certificates, totalIssued, totalRevoked, events, blockTimestamp,
                 lastCall, prev>>

\* await contract.issueCertificate: the gas estimate runs the call on the
\* current state and throws its revert reason; otherwise the node takes the
\* transaction or rejects it for lack of funds
SubmitIssue(r) ==
  LET request == [handlers[r] EXCEPT !.calls = @ \cup {"issueCertificate"}]
      reason == IssueRevertReason(request.bytes32Hash, request.ipfsHash)
  IN  /\ Quiet
      /\ handlers[r].pc = "submit"
      /\ handlers[r].route = "issue-certificate"
      /\ \/ handlers' = [handlers EXCEPT ![r] =
                IF reason # NoRevert
                THEN Respond(request, IssueError(RevertError(reason)))
                ELSE [request EXCEPT !.pc = AfterSubmit]]
         \/ /\ reason = NoRevert
            /\ handlers' = [handlers EXCEPT ![r] =
                              Respond(request, IssueError(MsgInsufficientFunds))]
      /\ UNCHANGED <<certificates, totalIssued, totalRevoked, events, blockTimestamp,
                     lastCall, prev>>

\* the ledger executes the transaction of the handler; tx.wait() returns the
\* receipt or throws
IssueMined(r) ==
  /\ handlers[r].pc = "wait"
  /\ handlers[r].route = "issue-certificate"
  /\ \A q \in Handlers : handlers[q].pc # "done"
  /\ IssueCertificate(handlers[r].from, handlers[r].bytes32Hash, handlers[r].ipfsHash)
  /\ handlers' = [handlers EXCEPT
       ![r].pc = IF lastCall'.status = NoRevert THEN "confirmed" ELSE "threw",
       ![r].receipt = IF lastCall'.status = NoRevert THEN "confirmed" ELSE "reverted"]

\* the rest of the issue handler: the success response after tx.wait(), or the
\* catch block
IssueRespond(r) ==
  /\ handlers[r].pc \in {"confirmed", "threw"}
  /\ handlers[r].route = "issue-certificate"
  /\ handlers' = [handlers EXCEPT ![r] =
       IF handlers[r].pc = "confirmed"
       THEN Respond(handlers[r],
                    Response(200, TRUE, <<"Certificate", "issued", "successfully">>,
                             IssuedData(handlers[r])))
       ELSE Respond(handlers[r], IssueError(MsgTransactionReverted))]
  /\ lastCall' = NoCall
  /\ prev' = Ledger
  /\ UNCHANGED <<certificates, totalIssued, totalRevoked, events, blockTimestamp>>

\* the revoke endpoints without their existence check
RevokePrecheckPasses_Always(lookup) == TRUE

\* the existence check of the revoke endpoints: existingCert[0]
RevokePrecheckPasses(lookup) == lookup.result[1]

\* POST /api/revoke-certificate, from the arrival of the request to the answer
\* of the existence check
RevokeCertificateRequest(r, file) ==
  LET received == [IdleHandler EXCEPT !.route = "revoke-certificate", !.input.file = file]
      request == [received EXCEPT !.from = TxSender(received)]
      lookup == KeyLookup(generatePDFHash(file))
  IN  /\ Quiet
      /\ Free(r)
      /\ handlers' = [handlers EXCEPT ![r] =
           IF file = NoFile
             THEN Respond(request,
                          Response(400, FALSE, <<"No", "PDF", "file", "uploaded">>, NoData))
           ELSE IF lookup.threw
             THEN Respond(Looked(request, lookup), RevokeError(lookup.message))
           ELSE IF ~RevokePrecheckPasses(lookup)
             THEN Respond(Looked(request, lookup),
                          Response(404, FALSE, <<"Certificate", "does", "not", "exist">>,
                                   NoData))
           ELSE GoOn(Looked(request, lookup), "submit")]
      /\ UNCHANGED <<certificates, totalIssued, totalRevoked, events, blockTimestamp,
                     lastCall, prev>>

\* JSON.parse(qrData) and the test of type and hash: does the handler go on
\* with parsed.hash
QrAccepted(qrData) ==
  /\ qrData.json
  /\ qrData.type = "certificate"
  /\ qrData.hash # <<>>

\* POST /api/revoke-qr, from the arrival of the request to the answer of the
\* existence check
RevokeQrRequest(r, qrData) ==
  LET received == [IdleHandler EXCEPT !.route = "revoke-qr", !.input.qrData = qrData]
      request == [received EXCEPT !.from = TxSender(received)]
      lookup == KeyLookup(qrData.hash)
  IN  /\ Quiet
      /\ Free(r)
      /\ handlers' = [handlers EXCEPT ![r] =
           IF ~qrData.given
             THEN Respond(request,
                          Response(400, FALSE, <<"No", "QR", "data", "provided">>, NoData))
           ELSE IF ~QrAccepted(qrData)
             THEN Respond(request,
                          Response(400, FALSE, <<"Invalid", "QR", "code", "format">>, NoData))
           ELSE IF lookup.threw
             THEN Respond(Looked(request, lookup), RevokeError(lookup.message))
           ELSE IF ~RevokePrecheckPasses(lookup)
             THEN Respond(Looked(request, lookup),
                          Response(404, FALSE, <<"Certificate", "does", "not", "exist">>,
                                   NoData))
           ELSE GoOn(Looked(request, lookup), "submit")]
      /\ UNCHANGED <<certificates, totalIssued, totalRevoked, events, blockTimestamp,
                     lastCall, prev>>

\* await contract.revokeCertificate of both revoke endpoints
SubmitRevoke(r) ==
  LET request == [handlers[r] EXCEPT !.calls = @ \cup {"revokeCertificate"}]
      reason == RevokeRevertReason(request.bytes32Hash, request.from)
  IN  /\ Quiet
      /\ handlers[r].pc = "submit"
      /\ handlers[r].route \in {"revoke-certificate", "revoke-qr"}
      /\ \/ handlers' = [handlers EXCEPT ![r] =
                IF reason # NoRevert
                THEN Respond(request, RevokeError(RevertError(reason)))
                ELSE [request EXCEPT !.pc = AfterSubmit]]
         \/ /\ reason = NoRevert
            /\ handlers' = [handlers EXCEPT ![r] =
                              Respond(request, RevokeError(MsgInsufficientFunds))]
      /\ UNCHANGED <<certificates, totalIssued, totalRevoked, events, blockTimestamp,
                     lastCall, prev>>

RevokeMined(r) ==
  /\ handlers[r].pc = "wait"
  /\ handlers[r].route \in {"revoke-certificate", "revoke-qr"}
  /\ \A q \in Handlers : handlers[q].pc # "done"
  /\ RevokeCertificate(handlers[r].from, handlers[r].bytes32Hash)
  /\ handlers' = [handlers EXCEPT
       ![r].pc = IF lastCall'.status = NoRevert THEN "confirmed" ELSE "threw",
       ![r].receipt = IF lastCall'.status = NoRevert THEN "confirmed" ELSE "reverted"]

RevokeRespond(r) ==
  /\ handlers[r].pc \in {"confirmed", "threw"}
  /\ handlers[r].route \in {"revoke-certificate", "revoke-qr"}
  /\ handlers' = [handlers EXCEPT ![r] =
       IF handlers[r].pc = "confirmed"
       THEN Respond(handlers[r],
                    Response(200, TRUE, <<"Certificate", "revoked", "successfully">>,
                             Data(handlers[r].bytes32Hash, FALSE, ZeroAddress, 0,
                                  EmptyString)))
       ELSE Respond(handlers[r], RevokeError(MsgTransactionReverted))]
  /\ lastCall' = NoCall
  /\ prev' = Ledger
  /\ UNCHANGED <<certificates, totalIssued, totalRevoked, events, blockTimestamp>>

\* the network drops the transaction: tx.wait() never returns, the handler
\* never answers and never uses what it holds
TxDropped(r) ==
  /\ Quiet
  /\ handlers[r].pc = "wait"
  /\ handlers' = [handlers EXCEPT ![r] =
                    [IdleHandler EXCEPT !.pc = "dropped", !.route = handlers[r].route,
                                        !.from = handlers[r].from]]
  /\ UNCHANGED <<certificates, totalIssued, totalRevoked, events, blockTimestamp,
                 lastCall, prev>>

\* POST /api/verify-qr
VerifyQrRequest(r, qrData) ==
  LET request == [IdleHandler EXCEPT !.route = "verify-qr", !.input.qrData = qrData]
      lookup == KeyLookup(qrData.hash)
  IN  /\ Quiet
      /\ Free(r)
      /\ handlers' = [handlers EXCEPT ![r] =
           IF ~qrData.given
             THEN Respond(request,
                          Response(400, FALSE, <<"No", "QR", "data", "provided">>, NoData))
           ELSE IF ~QrAccepted(qrData)
             THEN Respond(request,
                          Response(400, FALSE, <<"Invalid", "QR", "code", "format">>, NoData))
           ELSE IF lookup.threw
             THEN Respond(Looked(request, lookup),
                          Response(500, FALSE, <<"Failed", "to", "verify", "certificate">>,
                                   NoData))
           ELSE IF lookup.result[1]
             THEN Respond(Looked(request, lookup),
                          Response(200, TRUE, <<"Certificate", "is", "valid">>,
                                   DataOf(lookup)))
           ELSE Respond(Looked(request, lookup),
                        Response(200, TRUE, <<"Certificate", "not", "found", "or", "revoked">>,
                                 Data(lookup.bytes32Hash, FALSE, ZeroAddress, 0,
                                      EmptyString)))]
      /\ UNCHANGED <<certificates, totalIssued, totalRevoked, events, blockTimestamp,
                     lastCall, prev>>

\* POST /api/verify-certificate
VerifyCertificateRequest(r, file) ==
  LET request == [IdleHandler EXCEPT !.route = "verify-certificate", !.input.file = file]
      lookup == KeyLookup(generatePDFHash(file))
  IN  /\ Quiet
      /\ Free(r)
      /\ handlers' = [handlers EXCEPT ![r] =
           IF file = NoFile
             THEN Respond(request,
                          Response(400, FALSE, <<"No", "PDF", "file", "uploaded">>, NoData))
           ELSE IF lookup.threw
             THEN Respond(Looked(request, lookup),
                          Response(500, FALSE, <<"Failed", "to", "verify", "certificate">>,
                                   NoData))
           ELSE IF lookup.result[1]
             THEN Respond(Looked(request, lookup),
                          Response(200, TRUE, <<"Certificate", "is", "valid">>,
                                   DataOf(lookup)))
           ELSE Respond(Looked(request, lookup),
                        Response(200, TRUE, <<"Certificate", "not", "found", "or", "revoked">>,
                                 Data(lookup.bytes32Hash, FALSE, ZeroAddress, 0,
                                      EmptyString)))]
      /\ UNCHANGED <<certificates, totalIssued, totalRevoked, events, blockTimestamp,
                     lastCall, prev>>

\* GET /api/certificate/:hash
GetCertificateRequest(r, hash) ==
  LET request == [IdleHandler EXCEPT !.route = "certificate", !.input.hash = hash]
      lookup == KeyLookup(hash)
  IN  /\ Quiet
      /\ Free(r)
      /\ handlers' = [handlers EXCEPT ![r] =
           IF ~MatchesKeyPattern(hash)
             THEN Respond(request,
                          Response(400, FALSE, <<"Invalid", "hash", "format">>, NoData))
           ELSE IF lookup.threw
             THEN Respond(Looked(request, lookup),
                          Response(500, FALSE, <<"Failed", "to", "fetch", "certificate">>,
                                   NoData))
           ELSE IF lookup.result[1]
             THEN Respond(Looked(request, lookup), Response(200, TRUE, <<>>, DataOf(lookup)))
           ELSE Respond(Looked(request, lookup),
                        Response(404, FALSE, <<"Certificate", "not", "found", "or", "revoked">>,
                                 NoData))]
      /\ UNCHANGED <<certificates, totalIssued, totalRevoked, events, blockTimestamp,
                     lastCall, prev>>

\* the client has the response; the handler is free again
ResponseSent(r) ==
  /\ handlers[r].pc = "done"
  /\ handlers' = [handlers EXCEPT ![r] = IdleHandler]
  /\ UNCHANGED <<certificates, totalIssued, totalRevoked, events, blockTimestamp,
                 lastCall, prev>>

\* the other account has taken the outcome of its direct call
DirectReturn ==
  /\ \A r \in Handlers : handlers[r].pc \notin {"confirmed", "threw"}
  /\ Return
  /\ UNCHANGED <<handlers, blockchain, ui>>

\* the server, its clients, and the other account calling the contract
ServerNext ==
  \/ \E r \in Handlers, f \in Files \cup {NoFile}, i \in IssuerFields :
       IssueCertificateRequest(r, f, i) /\ UNCHANGED <<blockchain, ui>>
  \/ \E r \in Handlers : UploadToPinata(r) /\ UNCHANGED <<blockchain, ui>>
  \/ \E r \in Handlers : SubmitIssue(r) /\ UNCHANGED <<blockchain, ui>>
  \/ \E r \in Handlers : IssueMined(r) /\ UNCHANGED <<blockchain, ui>>
  \/ \E r \in Handlers : IssueRespond(r) /\ UNCHANGED <<blockchain, ui>>
  \/ \E r \in Handlers, f \in Files \cup {NoFile} : RevokeCertificateRequest(r, f)
       /\ UNCHANGED <<blockchain, ui>>
  \/ \E r \in Handlers, q \in QrInputs : RevokeQrRequest(r, q)
       /\ UNCHANGED <<blockchain, ui>>
  \/ \E r \in Handlers : SubmitRevoke(r) /\ UNCHANGED <<blockchain, ui>>
  \/ \E r \in Handlers : RevokeMined(r) /\ UNCHANGED <<blockchain, ui>>
  \/ \E r \in Handlers : RevokeRespond(r) /\ UNCHANGED <<blockchain, ui>>
  \/ \E r \in Handlers : TxDropped(r) /\ UNCHANGED <<blockchain, ui>>
  \/ \E r \in Handlers, q \in QrInputs : VerifyQrRequest(r, q)
       /\ UNCHANGED <<blockchain, ui>>
  \/ \E r \in Handlers, f \in Files \cup {NoFile} : VerifyCertificateRequest(r, f)
       /\ UNCHANGED <<blockchain, ui>>
  \/ \E r \in Handlers, s \in KeyStrings : GetCertificateRequest(r, s)
       /\ UNCHANGED <<blockchain, ui>>
  \/ \E r \in Handlers : ResponseSent(r) /\ UNCHANGED <<blockchain, ui>>
  \/ \E h \in FileKeys :
       Quiet /\ IssueCertificate(OtherAccount, h, OtherCid) /\ UNCHANGED <<handlers, blockchain, ui>>
  \/ \E h \in FileKeys : Quiet /\ RevokeCertificate(OtherAccount, h) /\ UNCHANGED <<handlers, blockchain, ui>>
  \/ DirectReturn

ServerSpec == Init /\ [][ServerNext]_vars

\* ------------------------------------------------------------------------
\* The contract called directly, by any account
\* ------------------------------------------------------------------------
Next ==
  \/ \E s \in Senders, h \in Hashes, c \in CIDs :
       IssueCertificate(s, h, c) /\ UNCHANGED <<handlers, blockchain, ui>>
  \/ \E s \in Senders, h \in Hashes : RevokeCertificate(s, h) /\ UNCHANGED <<handlers, blockchain, ui>>
  \/ \E h \in Hashes : VerifyCertificate(h) /\ UNCHANGED <<handlers, blockchain, ui>>
  \/ GetStatistics /\ UNCHANGED <<handlers, blockchain, ui>>
  \/ \E h \in Hashes : GetCertificateDetails(h) /\ UNCHANGED <<handlers, blockchain, ui>>
  \/ \E h \in Hashes : WasEverIssued(h) /\ UNCHANGED <<handlers, blockchain, ui>>
  \/ Return /\ UNCHANGED <<handlers, blockchain, ui>>
  \/ MineBlock /\ UNCHANGED <<handlers, blockchain, ui>>

Spec == Init /\ [][Next]_vars

\* ------------------------------------------------------------------------
\* Vocabulary of the properties
\* ------------------------------------------------------------------------
\* lifecycle state of a key in a given mapping
LifecycleIn(certs, certHash) ==
  IF certs[certHash].isValid THEN "Active"
  ELSE IF certs[certHash].issuer # ZeroAddress THEN "Revoked"
  ELSE "Unknown"

Lifecycle(certHash) == LifecycleIn(certificates, certHash)

\* lifecycle state of the key of the last call, before that call
PrevLifecycle == LifecycleIn(prev.certificates, lastCall.certHash)

\* the record of the key of the last call, before that call
PrevRecord == prev.certificates[lastCall.certHash]

\* the step is a call that went through
SuccessfulIssueStep ==
  /\ lastCall = NoCall
  /\ lastCall'.op = "issueCertificate"
  /\ lastCall'.status = NoRevert

SuccessfulRevokeStep ==
  /\ lastCall = NoCall
  /\ lastCall'.op = "revokeCertificate"
  /\ lastCall'.status = NoRevert

\* ------------------------------------------------------------------------
\* Properties
\* ------------------------------------------------------------------------

\* C1: every key moves only Unknown -> Active and Active -> Revoked, each at
\* most once; a Revoked key stays Revoked whatever call follows, by whomever.
C1_LifecycleOneWay ==
  [][\A h \in Hashes :
       /\ Lifecycle(h) = "Unknown" => Lifecycle(h)' \in {"Unknown", "Active"}
       /\ Lifecycle(h) = "Active" => Lifecycle(h)' \in {"Active", "Revoked"}
       /\ Lifecycle(h) = "Revoked" => Lifecycle(h)' = "Revoked"]_vars

\* C1 witness: the original issuer has called issueCertificate, with a valid
\* CID, on a key that was Revoked.
C1_Witness ==
  /\ lastCall.op = "issueCertificate"
  /\ PrevLifecycle = "Revoked"
  /\ lastCall.sender = PrevRecord.issuer
  /\ validCID(lastCall.ipfsCID)

\* C2: revokeCertificate on an Active key by a caller who is not its issuer
\* reverts with the not-authorized reason and leaves records, counters and
\* event log as they were.
C2_RevokeByOtherRejected ==
  (/\ lastCall.op = "revokeCertificate"
   /\ PrevLifecycle = "Active"
   /\ lastCall.sender # PrevRecord.issuer)
  => (/\ lastCall.status = MsgNotAuthorized
      /\ Ledger = prev)

\* C2 witness: a caller other than the issuer has called revokeCertificate on
\* an Active key while another key was issued too.
C2_Witness ==
  /\ lastCall.op = "revokeCertificate"
  /\ PrevLifecycle = "Active"
  /\ lastCall.sender # PrevRecord.issuer
  /\ totalIssued = 2

\* C3: the issuer of a record changes only in the successful issueCertificate
\* that takes the key from Unknown to Active, becomes that call's msg.sender,
\* and never changes once set.
C3_OwnerSetOnce ==
  [][\A h \in Hashes :
       /\ certificates[h].issuer # ZeroAddress
            => certificates'[h].issuer = certificates[h].issuer
       /\ certificates'[h].issuer # certificates[h].issuer
            => /\ SuccessfulIssueStep
               /\ lastCall'.certHash = h
               /\ Lifecycle(h) = "Unknown"
               /\ Lifecycle(h)' = "Active"
       /\ (SuccessfulIssueStep /\ lastCall'.certHash = h)
            => certificates'[h].issuer = lastCall'.sender]_vars

\* C3 witness: a key issued by one account was revoked and a different
\* account has then called issueCertificate on it.
C3_Witness ==
  /\ lastCall.op = "issueCertificate"
  /\ PrevLifecycle = "Revoked"
  /\ lastCall.sender # PrevRecord.issuer
  /\ validCID(lastCall.ipfsCID)

\* C4: the number of Active keys is totalIssued - totalRevoked, and
\* totalRevoked <= totalIssued, so getStatistics does not underflow and its
\* third result is the number of Active keys.
C4_ActiveCount ==
  LET active == Cardinality({h \in Hashes : certificates[h].isValid})
  IN  /\ totalRevoked <= totalIssued
      /\ active = totalIssued - totalRevoked
      /\ lastCall.op = "getStatistics"
           => /\ lastCall.status = NoRevert
              /\ lastCall.ret = <<totalIssued, totalRevoked, active>>

\* C4 witness: getStatistics was called after two keys were issued and one
\* of them revoked.
C4_Witness ==
  /\ lastCall.op = "getStatistics"
  /\ totalIssued = 2
  /\ totalRevoked = 1

\* C5: the counters never decrease; totalIssued grows by 1 in a successful
\* issueCertificate and by 0 in every other step, totalRevoked grows by 1 in a
\* successful revokeCertificate and by 0 in every other step.
C5_CountersStep ==
  [][/\ totalIssued' >= totalIssued
     /\ totalRevoked' >= totalRevoked
     /\ totalIssued' = totalIssued + (IF SuccessfulIssueStep THEN 1 ELSE 0)
     /\ totalRevoked' = totalRevoked + (IF SuccessfulRevokeStep THEN 1 ELSE 0)]_vars

\* C5 witness: with both counters non-zero, a revokeCertificate has reverted.
C5_Witness ==
  /\ lastCall.op = "revokeCertificate"
  /\ lastCall.status # NoRevert
  /\ totalIssued = 2
  /\ totalRevoked = 1

\* C6: after a successful issueCertificate(k, L) by A, verifyCertificate(k)
\* returns (true, A, block time of the issuance, L), wasEverIssued(k) holds,
\* the key was Unknown before and totalIssued is one more than before.
C6_IssueThenVerify ==
  (lastCall.op = "issueCertificate" /\ lastCall.status = NoRevert)
  => (/\ PrevLifecycle = "Unknown"
      /\ verifyCertificate(lastCall.certHash)
           = <<TRUE, lastCall.sender, blockTimestamp, lastCall.ipfsCID>>
      /\ wasEverIssued(lastCall.certHash)
      /\ totalIssued = prev.totalIssued + 1)

\* C6 witness: a second key was issued, in a later block than the first.
C6_Witness ==
  /\ lastCall.op = "issueCertificate"
  /\ lastCall.status = NoRevert
  /\ totalIssued = 2
  /\ \E h \in Hashes : /\ certificates[h].isValid
                        /\ certificates[h].issuedAt < blockTimestamp

\* C7 as stated: issueCertificate on an Active key reverts with the
\* already-issued reason for every caller and every locator, leaving the
\* ledger unchanged.
C7_Original ==
  (lastCall.op = "issueCertificate" /\ PrevLifecycle = "Active")
  => (/\ lastCall.status = MsgAlreadyIssued
      /\ Ledger = prev)

\* C7 as amended: issueCertificate on an Active key reverts for every caller
\* and every locator and leaves the ledger unchanged; the reason is the
\* already-issued one when the locator is non-empty and the invalid-CID one
\* when the locator is empty.
C7_IssueOnActiveRejected ==
  (lastCall.op = "issueCertificate" /\ PrevLifecycle = "Active")
  => (/\ lastCall.status =
           IF Len(lastCall.ipfsCID) > 0 THEN MsgAlreadyIssued ELSE MsgInvalidCID
      /\ Ledger = prev)

\* C7 witness: an account other than the issuer has called issueCertificate
\* with a non-empty locator on an Active key, in a later block than the one
\* the key was issued in.
C7_Witness ==
  /\ lastCall.op = "issueCertificate"
  /\ PrevLifecycle = "Active"
  /\ lastCall.sender # PrevRecord.issuer
  /\ Len(lastCall.ipfsCID) > 0
  /\ blockTimestamp > PrevRecord.issuedAt

\* C8: issueCertificate with a valid locator on a Revoked key fails in the
\* same error class as on an Active key (the class the issue endpoint gives
\* the already-issued reason) and leaves the ledger unchanged.
C8_IssueOnRevokedSameClass ==
  (/\ lastCall.op = "issueCertificate"
   /\ PrevLifecycle = "Revoked"
   /\ Len(lastCall.ipfsCID) > 0)
  => (/\ lastCall.status # NoRevert
      /\ IssueErrorResponse(lastCall.status) = IssueErrorResponse(MsgAlreadyIssued)
      /\ Ledger = prev)

\* C9: after a successful revokeCertificate(k) by the issuer,
\* verifyCertificate(k) returns active=false with issuer, issuedAt and CID of
\* the record as issued, wasEverIssued(k) holds and totalRevoked is one more
\* than before; no call changes issuer, issuedAt or CID of an issued key.
C9_RevokeKeepsHistory ==
  /\ (lastCall.op = "revokeCertificate" /\ lastCall.status = NoRevert)
       => (/\ PrevLifecycle = "Active"
           /\ PrevRecord.issuer = lastCall.sender
           /\ verifyCertificate(lastCall.certHash)
                = <<FALSE, PrevRecord.issuer, PrevRecord.issuedAt, PrevRecord.ipfsCID>>
           /\ BagIn(CertificateIssued(lastCall.certHash, PrevRecord.issuer,
                                      PrevRecord.ipfsCID), events)
           /\ wasEverIssued(lastCall.certHash)
           /\ totalRevoked = prev.totalRevoked + 1)
  /\ \A h \in Hashes :
       LifecycleIn(prev.certificates, h) # "Unknown"
         => /\ certificates[h].issuer = prev.certificates[h].issuer
            /\ certificates[h].issuedAt = prev.certificates[h].issuedAt
            /\ certificates[h].ipfsCID = prev.certificates[h].ipfsCID

\* C9 witness: the issuer has revoked a key in a later block than the one it
\* was issued in, while another key is Active.
C9_Witness ==
  /\ lastCall.op = "revokeCertificate"
  /\ lastCall.status = NoRevert
  /\ blockTimestamp > PrevRecord.issuedAt
  /\ totalIssued = 2

\* C10: revokeCertificate on an already Revoked key fails with an error that
\* differs from the one revokeCertificate gives for an Unknown key.
C10_RevokeErrorsDistinct ==
  (/\ lastCall.op = "revokeCertificate"
   /\ PrevLifecycle = "Revoked")
  => (/\ lastCall.status # NoRevert
      /\ \A j \in Hashes, s \in Senders :
           (validHash(j) /\ Lifecycle(j) = "Unknown")
             => lastCall.status # RevokeRevertReason(j, s))

\* the key has a CertificateIssued event in the log: an issueCertificate on it
\* went through
IssueHappened(certHash) ==
  \E e \in BagToSet(events) : e.name = "CertificateIssued" /\ e.certHash = certHash

\* C11 as stated: verifyCertificate on any 32-byte key that was never issued
\* answers without error, with the zero-value record, and wasEverIssued of the
\* key is false.
C11_Original ==
  (/\ lastCall.op = "verifyCertificate"
   /\ ~IssueHappened(lastCall.certHash))
  => (/\ lastCall.status = NoRevert
      /\ lastCall.ret = ZeroValueAnswer
      /\ ~wasEverIssued(lastCall.certHash))

\* C11: verifyCertificate on any non-zero key that was never issued answers
\* without error, with active = false, zero owner, zero timestamp and empty
\* locator, and wasEverIssued of the key is false; on the zero key it reverts
\* with the invalid-hash reason.
C11_VerifyUnknownNoError ==
  (/\ lastCall.op = "verifyCertificate"
   /\ ~IssueHappened(lastCall.certHash))
  => IF validHash(lastCall.certHash)
     THEN /\ lastCall.status = NoRevert
          /\ lastCall.ret = ZeroValueAnswer
          /\ ~wasEverIssued(lastCall.certHash)
     ELSE /\ lastCall.status = MsgInvalidHash
          /\ ~wasEverIssued(lastCall.certHash)

\* C11 witness: verifyCertificate was called on a non-zero key that was never
\* issued, while another key is Active and a third one Revoked.
C11_Witness ==
  /\ lastCall.op = "verifyCertificate"
  /\ validHash(lastCall.certHash)
  /\ ~IssueHappened(lastCall.certHash)
  /\ \E j \in Hashes : Lifecycle(j) = "Revoked"

\* C12: in every state and for every key, wasEverIssued and the fifth result
\* of getCertificateDetails are true exactly when an issueCertificate on the key
\* has gone through, which is exactly when the key is Active or Revoked,
\* whatever the isValid flag is now; a wasEverIssued call answers that value.
C12_WasEverIssuedIffIssued ==
  /\ \A h \in Hashes :
       /\ wasEverIssued(h) = IssueHappened(h)
       /\ getCertificateDetails(h)[5] = IssueHappened(h)
       /\ IssueHappened(h) = (Lifecycle(h) \in {"Active", "Revoked"})
  /\ lastCall.op = "wasEverIssued"
       => lastCall.ret = <<IssueHappened(lastCall.certHash)>>
  /\ lastCall.op = "getCertificateDetails"
       => lastCall.ret[5] = IssueHappened(lastCall.certHash)

\* C12 witness: wasEverIssued was called on a Revoked key and answered true.
C12_Witness ==
  /\ lastCall.op = "wasEverIssued"
  /\ Lifecycle(lastCall.certHash) = "Revoked"
  /\ ~certificates[lastCall.certHash].isValid
  /\ lastCall.ret = <<TRUE>>

\* C14: issueCertificate with the zero key reverts with the invalid-hash
\* reason, and with a non-zero key and the empty CID with the invalid-CID reason;
\* either way the records, both counters and the event log are as before.
C14_InvalidInputRejected ==
  lastCall.op = "issueCertificate"
  => /\ ~validHash(lastCall.certHash)
          => (lastCall.status = MsgInvalidHash /\ Ledger = prev)
     /\ (validHash(lastCall.certHash) /\ lastCall.ipfsCID = EmptyString)
          => (lastCall.status = MsgInvalidCID /\ Ledger = prev)

\* C14 witness: issueCertificate was called with the empty CID on an Unknown
\* non-zero key while another key is issued.
C14_Witness ==
  /\ lastCall.op = "issueCertificate"
  /\ validHash(lastCall.certHash)
  /\ lastCall.ipfsCID = EmptyString
  /\ PrevLifecycle = "Unknown"
  /\ totalIssued = 1

\* C17: after issueCertificate(k) or revokeCertificate(k), gone through or not,
\* the record of every key other than k is what it was before the call;
\* issueCertificate leaves totalRevoked and revokeCertificate leaves totalIssued
\* as they were.
C17_OtherKeysUntouched ==
  /\ lastCall.op \in {"issueCertificate", "revokeCertificate"}
       => \A j \in Hashes \ {lastCall.certHash} :
            certificates[j] = prev.certificates[j]
  /\ lastCall.op = "issueCertificate" => totalRevoked = prev.totalRevoked
  /\ lastCall.op = "revokeCertificate" => totalIssued = prev.totalIssued

\* C17 witness: an issueCertificate went through while another key was Revoked.
C17_Witness ==
  /\ lastCall.op = "issueCertificate"
  /\ lastCall.status = NoRevert
  /\ \E j \in Hashes \ {lastCall.certHash} :
       /\ LifecycleIn(prev.certificates, j) = "Revoked"
       /\ certificates[j].ipfsCID # EmptyString

\* C18: after verifyCertificate, getStatistics, getCertificateDetails or
\* wasEverIssued, for any key and in any state, reverted or not, every record,
\* both counters and the event log are what they were before the call.
C18_QueriesReadOnly ==
  lastCall.op \in {"verifyCertificate", "getStatistics", "getCertificateDetails",
                   "wasEverIssued"}
  => Ledger = prev

\* C18 witness: verifyCertificate has answered for a Revoked key while another
\* key is Active.
C18_Witness ==
  /\ lastCall.op = "verifyCertificate"
  /\ lastCall.status = NoRevert
  /\ Lifecycle(lastCall.certHash) = "Revoked"
  /\ \E j \in Hashes : Lifecycle(j) = "Active"

\* ------------------------------------------------------------------------
\* Vocabulary of the properties of the server
\* ------------------------------------------------------------------------
IssueRoutes == {"issue-certificate"}
RevokeRoutes == {"revoke-certificate", "revoke-qr"}

\* the transaction of the handler has just been executed by the ledger
JustMined(r) == handlers[r].pc \in {"confirmed", "threw"}

\* the key text of a request that a handler goes on with, <<>> if there is none
KeyTextOf(request) ==
  IF request.route = "certificate" THEN request.input.hash
  ELSE IF request.route \in {"verify-qr", "revoke-qr"} /\ QrAccepted(request.input.qrData)
    THEN request.input.qrData.hash
  ELSE <<>>

\* the record is that of a key never issued, or has all that an issue writes
WholeRecord(cert) ==
  \/ cert = EmptyCertificate
  \/ cert.issuer # ZeroAddress /\ cert.issuedAt > 0 /\ cert.ipfsCID # EmptyString

\* C13: of the issue transactions the server and others send for one key, one
\* goes through: the log has one CertificateIssued event per issued key and
\* totalIssued counts the issued keys.  A handler whose transaction is executed
\* when the key is still Unknown wins: the record has the wallet as owner and
\* the handler's CID, and totalIssued has grown by one.  A handler that passed
\* the existence check and whose transaction is executed when the key has
\* become Active is rejected with the already-issued reason and leaves the
\* winner's record and both counters as they were.
C13_OneIssueWins ==
  /\ \A e \in BagToSet(events) :
       e.name = "CertificateIssued"
         => /\ CopiesIn(e, events) = 1
            /\ \A f \in BagToSet(events) :
                 (f.name = "CertificateIssued" /\ f.certHash = e.certHash) => f = e
  /\ totalIssued = Cardinality({h \in Hashes : IssueHappened(h)})
  /\ \A r \in Handlers :
       (handlers[r].route \in IssueRoutes /\ JustMined(r))
         => LET h == handlers[r].bytes32Hash
            IN  /\ LifecycleIn(prev.certificates, h) = "Unknown"
                     => /\ handlers[r].pc = "confirmed"
                        /\ certificates[h] =
                             NewCertificate(ServerWallet, blockTimestamp, handlers[r].ipfsHash)
                        /\ totalIssued = prev.totalIssued + 1
                /\ LifecycleIn(prev.certificates, h) = "Active"
                     => /\ handlers[r].pc = "threw"
                        /\ lastCall.status = MsgAlreadyIssued
                        /\ Ledger = prev

\* C13 witness: two issue requests for one key passed the existence check; the
\* transaction of one went through, and the transaction of the other has now
\* been rejected as already issued.
C13_Witness ==
  \E r \in Handlers :
    /\ handlers[r].route \in IssueRoutes
    /\ handlers[r].pc = "threw"
    /\ lastCall.status = MsgAlreadyIssued
    /\ certificates[handlers[r].bytes32Hash].issuer = ServerWallet
    /\ totalIssued = 1

\* C15: every request that hands a key text not matching
\* ^(0x)?[0-9a-fA-F]{64}$ to GET /api/certificate/:hash, POST /api/verify-qr or
\* POST /api/revoke-qr is answered with a client error (4xx), and no call with
\* it reaches the contract.
C15_MalformedKeyRejected ==
  \A r \in Handlers :
    (/\ handlers[r].pc = "done"
     /\ KeyTextOf(handlers[r]) # <<>>
     /\ ~MatchesKeyPattern(KeyTextOf(handlers[r])))
    => /\ handlers[r].response.statusCode \in 400..499
       /\ handlers[r].calls = {}

C19_OwnerIsWallet ==
  /\ (lastCall.op = "issueCertificate" /\ lastCall.status = NoRevert)
       => certificates[lastCall.certHash].issuer = lastCall.sender
  /\ \A r \in Handlers :
       handlers[r].route \in IssueRoutes
         => /\ handlers[r].from = ServerWallet
            /\ JustMined(r) => lastCall.sender = ServerWallet
            /\ handlers[r].receipt = "confirmed"
                 => /\ certificates[handlers[r].bytes32Hash].issuer = ServerWallet
                    /\ handlers[r].pc = "done"
                         => handlers[r].response.data.issuer = ServerWallet

\* C19 witness: an issue request that names the other account as issuer was
\* answered with success.
C19_Witness ==
  \E r \in Handlers :
    /\ handlers[r].route \in IssueRoutes
    /\ handlers[r].pc = "done"
    /\ handlers[r].response.success
    /\ handlers[r].input.issuer = OtherAccount
    /\ certificates[handlers[r].bytes32Hash].issuer = ServerWallet

\* C20: an issue or revoke request is answered with success only when the
\* ledger has executed its transaction without revert: the key is then Active
\* with the handler's CID, or Revoked.  A handler whose transaction is not
\* submitted yet, waits, was dropped or has reverted has sent no success
\* response.
C20_SuccessAfterConfirmation ==
  \A r \in Handlers :
    handlers[r].route \in IssueRoutes \cup RevokeRoutes
      => /\ handlers[r].response.success
              => /\ handlers[r].pc = "done"
                 /\ handlers[r].receipt = "confirmed"
                 /\ handlers[r].route \in IssueRoutes
                      => /\ Lifecycle(handlers[r].bytes32Hash) = "Active"
                         /\ certificates[handlers[r].bytes32Hash].ipfsCID =
                              handlers[r].ipfsHash
                 /\ handlers[r].route \in RevokeRoutes
                      => Lifecycle(handlers[r].bytes32Hash) = "Revoked"
         /\ handlers[r].receipt = "confirmed"
              => handlers[r].pc \in {"confirmed", "done"}

\* C20 witness: a revoke request by QR code was answered with success after
\* its transaction was confirmed.
C20_Witness ==
  \E r \in Handlers :
    /\ handlers[r].route = "revoke-qr"
    /\ handlers[r].pc = "done"
    /\ handlers[r].response.success
    /\ handlers[r].receipt = "confirmed"

\* the events of one name in a log, and how many there are
EventsNamed(log, name) ==
  [e \in {x \in BagToSet(log) : x.name = name} |-> CopiesIn(e, log)]

EventCount(log, name) == BagCardinality(EventsNamed(log, name))

\* C25: an issueCertificate that goes through adds exactly one CertificateIssued
\* event with its key, its sender and its CID, and a revokeCertificate that goes
\* through exactly one CertificateRevoked event with its key; a reverted call
\* adds no event; the log has as many CertificateIssued events as totalIssued
\* and as many CertificateRevoked events as totalRevoked.
C25_OneEventPerSuccess ==
  /\ EventCount(events, "CertificateIssued") = totalIssued
  /\ EventCount(events, "CertificateRevoked") = totalRevoked
  /\ lastCall.op = "issueCertificate"
       => events = IF lastCall.status = NoRevert
                   THEN prev.events (+) SetToBag({CertificateIssued(
                          lastCall.certHash, lastCall.sender, lastCall.ipfsCID)})
                   ELSE prev.events
  /\ lastCall.op = "revokeCertificate"
       => events = IF lastCall.status = NoRevert
                   THEN prev.events (+) SetToBag({CertificateRevoked(lastCall.certHash)})
                   ELSE prev.events

\* C25 witness: a revokeCertificate went through after two issues, and the log
\* has two issuance events and one revocation event.
C25_Witness ==
  /\ lastCall.op = "revokeCertificate"
  /\ lastCall.status = NoRevert
  /\ totalIssued = 2
  /\ EventCount(events, "CertificateRevoked") = 1

\* the request has called the function of the contract, for a gas estimate or
\* a transaction
HasCalled(r, function) == function \in handlers[r].calls

\* C23: a revoke request, by PDF or by QR code, whose revokeCertificate is
\* rejected with the not-authorized reason is answered without success and
\* with status 403, and the key stays Active; no revoke request is answered
\* with success unless the record belonged to the sender of its transaction.
C23_NotAuthorizedNotSuccess ==
  \A r \in Handlers :
    handlers[r].route \in RevokeRoutes
      => LET h == handlers[r].bytes32Hash
         IN  /\ (/\ handlers[r].pc = "done"
                 /\ HasCalled(r, "revokeCertificate")
                 /\ handlers[r].receipt = "none"
                 /\ RevokeRevertReason(h, handlers[r].from) = MsgNotAuthorized)
                  => /\ ~handlers[r].response.success
                     /\ handlers[r].response.statusCode = 403
                     /\ Lifecycle(h) = "Active"
             /\ (JustMined(r) /\ lastCall.status = MsgNotAuthorized)
                  => /\ handlers[r].pc = "threw"
                     /\ Lifecycle(h) = "Active"
             /\ handlers[r].response.success
                  => certificates[h].issuer = handlers[r].from

\* C23 witness: a revoke request by QR code for a certificate of the other
\* account was answered 403, and the certificate is Active.
C23_Witness ==
  \E r \in Handlers :
    /\ handlers[r].route = "revoke-qr"
    /\ handlers[r].pc = "done"
    /\ handlers[r].response.statusCode = 403
    /\ certificates[handlers[r].bytes32Hash].issuer = OtherAccount
    /\ Lifecycle(handlers[r].bytes32Hash) = "Active"

\* C24: the issue endpoint answers a failure of its environment (pin failed,
\* transaction rejected for lack of funds) with a status other than 400, and
\* an issue request whose issueCertificate the ledger rejects because the key
\* is Active or Revoked with the status of the already-issued conflict, 400.
C24_ConflictStatus ==
  \A r \in Handlers :
    (/\ handlers[r].route \in IssueRoutes
     /\ handlers[r].pc = "done"
     /\ HasCalled(r, "issueCertificate")
     /\ handlers[r].receipt # "confirmed")
    => IF Lifecycle(handlers[r].bytes32Hash) \in {"Active", "Revoked"}
       THEN handlers[r].response.statusCode = 400
       ELSE handlers[r].response.statusCode \in {402, 500, 503}

\* C29: every key is revoked at most once and totalRevoked counts the Revoked
\* keys.  A revoke handler whose transaction is executed when the key is still
\* Active wins: the key is Revoked and totalRevoked has grown by one.  A
\* handler that passed the existence check and whose transaction is executed
\* when the key has become Revoked is rejected, leaves the ledger as it was,
\* and is answered without success.
C29_OneRevokeWins ==
  /\ \A e \in BagToSet(events) :
       e.name = "CertificateRevoked" => CopiesIn(e, events) = 1
  /\ totalRevoked = Cardinality({h \in Hashes : Lifecycle(h) = "Revoked"})
  /\ \A r \in Handlers :
       handlers[r].route \in RevokeRoutes
         => LET h == handlers[r].bytes32Hash
            IN  /\ (JustMined(r) /\ LifecycleIn(prev.certificates, h) = "Active")
                     => /\ handlers[r].pc = "confirmed"
                        /\ Lifecycle(h) = "Revoked"
                        /\ totalRevoked = prev.totalRevoked + 1
                /\ (JustMined(r) /\ LifecycleIn(prev.certificates, h) = "Revoked")
                     => /\ handlers[r].pc = "threw"
                        /\ lastCall.status = MsgDoesNotExist
                        /\ Ledger = prev
                /\ handlers[r].receipt = "reverted"
                     => /\ ~handlers[r].response.success
                        /\ handlers[r].response.statusCode # 200

\* C29 witness: two revoke requests for one certificate of the server passed
\* the existence check; the transaction of one went through, and the other,
\* whose transaction reverted, was answered without success.
C29_Witness ==
  \E r \in Handlers :
    /\ handlers[r].route \in RevokeRoutes
    /\ handlers[r].pc = "done"
    /\ handlers[r].receipt = "reverted"
    /\ ~handlers[r].response.success
    /\ certificates[handlers[r].bytes32Hash].issuer = ServerWallet
    /\ Lifecycle(handlers[r].bytes32Hash) = "Revoked"
    /\ totalRevoked = 1

\* C30: an issue request that arrives when no other request is being worked
\* on, for a file whose key is Active or Revoked, is answered at once by the
\* existence check, without success: the handler neither pins the file nor
\* calls issueCertificate.
C30_PrecheckRefuses ==
  [][\A r \in Handlers :
       (/\ handlers[r].pc = "idle"
        /\ \A q \in Handlers : handlers[q].pc = "idle"
        /\ handlers'[r].route \in IssueRoutes
        /\ handlers'[r].input.file # NoFile
        /\ Lifecycle(Sha256(handlers'[r].input.file)) \in {"Active", "Revoked"})
       => /\ handlers'[r].pc = "done"
          /\ ~handlers'[r].response.success
          /\ handlers'[r].calls \subseteq {"verifyCertificate"}]_vars

\* C26: the issue handler works in the order of the README: it has derived the
\* key of the file before it pins, it has pinned before it calls
\* issueCertificate, the transaction carries the key of the file and the CID
\* the pin returned, and a response carries a QR code only when the
\* transaction was confirmed, the record then holding that CID.  When the pin
\* fails the handler answers 503 without having called issueCertificate.
C26_IssueWorkflowOrder ==
  \A r \in Handlers :
    handlers[r].route \in IssueRoutes
      => LET request == handlers[r]
             h == request.bytes32Hash
         IN  /\ HasCalled(r, "uploadToPinata")
                  => /\ HasCalled(r, "verifyCertificate")
                     /\ h = Sha256(request.input.file)
             /\ HasCalled(r, "issueCertificate")
                  => /\ HasCalled(r, "uploadToPinata")
                     /\ request.ipfsHash # EmptyString
             /\ JustMined(r)
                  => /\ lastCall.certHash = h
                     /\ lastCall.ipfsCID = request.ipfsHash
             /\ request.response.data.qrCode # NoQrCode
                  => /\ request.receipt = "confirmed"
                     /\ request.response.success
                     /\ certificates[h].ipfsCID = request.ipfsHash
                     /\ request.response.data.ipfsCID = request.ipfsHash
             /\ (/\ request.pc = "done"
                 /\ HasCalled(r, "uploadToPinata")
                 /\ request.ipfsHash = EmptyString)
                  => /\ request.response.statusCode = 503
                     /\ ~request.response.success
                     /\ ~HasCalled(r, "issueCertificate")

\* C26 witness: an issue request was answered with success and a QR code.
C26_Witness ==
  \E r \in Handlers :
    /\ handlers[r].route \in IssueRoutes
    /\ handlers[r].pc = "done"
    /\ handlers[r].response.statusCode = 200
    /\ handlers[r].response.data.qrCode # NoQrCode
    /\ handlers[r].calls = {"verifyCertificate", "uploadToPinata", "issueCertificate"}

\* the payload a client reads from the QR code of a file and posts as qrData,
\* as the QR endpoints parse it
QrOfFile(file) == JsonParse(ScanQr(generateQRCode(generatePDFHash(file))))

\* the CertificateIssued events of a key
IssuedEvents(certHash) ==
  {e \in BagToSet(events) : e.name = "CertificateIssued" /\ e.certHash = certHash}

\* C21: when the verify endpoint has answered for a file b2 whose key is
\* Unknown, then for every other file b1 whose certificate is Active the key
\* of b2 differs from the key of b1, the contract returns the zero-value
\* record for the key of b2, the response says not valid, the handler has
\* called nothing but verifyCertificate, and the record of b1 is the one its
\* issue stored.
C21_OtherDocumentNotFound ==
  \A r \in Handlers :
    (/\ handlers[r].route = "verify-certificate"
     /\ handlers[r].pc = "done"
     /\ handlers[r].input.file # NoFile)
    => \A b1 \in Files \ {handlers[r].input.file} :
         LET k1 == Sha256(b1)
             k2 == handlers[r].bytes32Hash
         IN  Lifecycle(k1) = "Active"
               => /\ k2 # k1
                  /\ Lifecycle(k2) = "Unknown"
                       => /\ verifyCertificate(k2) = ZeroValueAnswer
                          /\ handlers[r].response.statusCode = 200
                          /\ ~handlers[r].response.data.isValid
                          /\ handlers[r].response.data.issuer = ZeroAddress
                          /\ handlers[r].response.data.bytes32Hash = k2
                  /\ handlers[r].calls = {"verifyCertificate"}
                  /\ \E e \in IssuedEvents(k1) :
                       /\ certificates[k1].issuer = e.issuer
                       /\ certificates[k1].ipfsCID = e.ipfsCID

\* C21 witness: the certificate of file pdfA is Active, the key of pdfB is
\* Unknown, and the verify endpoint has answered for pdfB.
C21_Witness ==
  \E r \in Handlers :
    /\ handlers[r].route = "verify-certificate"
    /\ handlers[r].pc = "done"
    /\ handlers[r].input.file = "pdfB"
    /\ Lifecycle(Sha256("pdfA")) = "Active"
    /\ Lifecycle(Sha256("pdfB")) = "Unknown"
    /\ ~handlers[r].response.data.isValid

\* C22: when the verify endpoint has answered for a file whose certificate is
\* Active, the response is a success with isValid true, the key of the file,
\* and the issuer and the CID that the issue of the key stored.
C22_SameBytesSameEntry ==
  \A r \in Handlers :
    (/\ handlers[r].route = "verify-certificate"
     /\ handlers[r].pc = "done"
     /\ handlers[r].input.file # NoFile
     /\ Lifecycle(Sha256(handlers[r].input.file)) = "Active")
    => LET answer == handlers[r].response
       IN  /\ answer.statusCode = 200
           /\ answer.success
           /\ answer.data.isValid
           /\ answer.data.bytes32Hash = Sha256(handlers[r].input.file)
           /\ \E e \in IssuedEvents(answer.data.bytes32Hash) :
                /\ answer.data.issuer = e.issuer
                /\ answer.data.ipfsCID = e.ipfsCID
                /\ e.ipfsCID # EmptyString

\* C22 witness: the verify endpoint has answered valid for a file that the
\* server issued.
C22_Witness ==
  \E r \in Handlers :
    /\ handlers[r].route = "verify-certificate"
    /\ handlers[r].pc = "done"
    /\ handlers[r].response.data.isValid
    /\ handlers[r].response.data.issuer = ServerWallet
    /\ handlers[r].response.data.ipfsCID # EmptyString

\* C28: the QR code of an issue response, scanned and parsed, is a payload
\* that the QR endpoints accept, its hash is the hex digest of the file and
\* converts to the key of the file, and the lookup of that key returns the
\* record of the file.  A QR request with the payload of a file is not refused
\* as malformed and works on the key of the file; verify-qr answers with the
\* validity that the ledger holds for that key, which is what
\* verify-certificate answers for the file.
C28_QrRoundTrip ==
  \A r \in Handlers :
       LET request == handlers[r]
       IN  /\ (request.route \in IssueRoutes /\ request.response.success)
                => LET payload == JsonParse(ScanQr(request.response.data.qrCode))
                       lookup == KeyLookup(payload.hash)
                   IN  /\ payload = QrOfFile(request.input.file)
                       /\ payload \in QrInputs
                       /\ QrAccepted(payload)
                       /\ payload.hash = generatePDFHash(request.input.file)
                       /\ ~lookup.threw
                       /\ lookup.bytes32Hash = request.bytes32Hash
                       /\ lookup.result = verifyCertificate(Sha256(request.input.file))

           /\ \A f \in Files :
                (/\ request.route \in {"verify-qr", "revoke-qr"}
                 /\ request.input.qrData.type = "certificate"
                 /\ request.input.qrData = QrOfFile(f))
                => /\ request.bytes32Hash = Sha256(f)

                   /\ request.response.message
                        \notin {<<"No", "QR", "data", "provided">>,
                                <<"Invalid", "QR", "code", "format">>}
                   /\ request.pc # "idle" => "verifyCertificate" \in request.calls

                   /\ (request.route = "verify-qr" /\ request.pc = "done")
                        => /\ request.response.success
                           /\ request.response.data.isValid
                                = certificates[Sha256(f)].isValid
           /\ (/\ request.route = "verify-certificate"
               /\ request.pc = "done"
               /\ request.input.file # NoFile)
                => /\ request.response.success
                   /\ request.response.data.isValid
                        = certificates[Sha256(request.input.file)].isValid

\* C28 witness: verify-qr has answered valid for the payload of the QR code
\* of file pdfB.
C28_Witness ==
  \E r \in Handlers :
    /\ handlers[r].route = "verify-qr"
    /\ handlers[r].pc = "done"
    /\ handlers[r].input.qrData = QrOfFile("pdfB")
    /\ handlers[r].response.data.isValid
    /\ handlers[r].response.data.bytes32Hash = Sha256("pdfB")

\* ------------------------------------------------------------------------
\* The contract variant that deletes the record on revoke (part_005): no
\* counters, no record kept of a revoked key
\* ------------------------------------------------------------------------
\* the longest event log the variant is run to
MaxEvents == 3

MsgVariantDoesNotExist == <<"Certificate", "does", "not", "exist">>
MsgVariantNotAuthorized == <<"Not", "authorized">>

\* revokeCertificate clearing isValid and keeping the other fields
DeletedCertificate_KeepsFields(cert) == [cert EXCEPT !.isValid = FALSE]

\* delete certificates[certHash]
DeletedCertificate(cert) == EmptyCertificate

\* the reason issueCertificate of the variant reverts with
VariantIssueRevertReason(certHash, ipfsCID) ==
  IF ~validHash(certHash) THEN MsgInvalidHash
  ELSE IF ~validCID(ipfsCID) THEN MsgInvalidCID
  ELSE IF certificates[certHash].isValid THEN MsgAlreadyIssued
  ELSE NoRevert

\* the reason revokeCertificate of the variant reverts with
VariantRevokeRevertReason(certHash, sender) ==
  IF ~validHash(certHash) THEN MsgInvalidHash
  ELSE IF ~certificates[certHash].isValid THEN MsgVariantDoesNotExist
  ELSE IF certificates[certHash].issuer # sender THEN MsgVariantNotAuthorized
  ELSE NoRevert

certificateExists(certHash) == certificates[certHash].isValid

getCertificateIssuer(certHash) == certificates[certHash].issuer

VariantIssueCertificate(sender, certHash, ipfsCID) ==
  LET reason == VariantIssueRevertReason(certHash, ipfsCID)
  IN  /\ lastCall = NoCall
      /\ BagCardinality(events) < MaxEvents
      /\ prev' = Ledger
      /\ lastCall' = Call("issueCertificate", sender, certHash, ipfsCID, reason, <<>>)
      /\ UNCHANGED <<totalIssued, totalRevoked, blockTimestamp, handlers, blockchain, ui>>
      /\ IF reason = NoRevert
         THEN /\ certificates' = StoreCertificate(certificates, certHash,
                                 NewCertificate(sender, blockTimestamp, ipfsCID))
              /\ events' = Emit(CertificateIssued(certHash, sender, ipfsCID))
         ELSE UNCHANGED <<certificates, events>>

VariantRevokeCertificate(sender, certHash) ==
  LET reason == VariantRevokeRevertReason(certHash, sender)
  IN  /\ lastCall = NoCall
      /\ prev' = Ledger
      /\ lastCall' = Call("revokeCertificate", sender, certHash, EmptyString, reason, <<>>)
      /\ UNCHANGED <<totalIssued, totalRevoked, blockTimestamp, handlers, blockchain, ui>>
      /\ IF reason = NoRevert
         THEN /\ certificates' = StoreCertificate(certificates, certHash,
                                 DeletedCertificate(certificates[certHash]))
              /\ events' = Emit(CertificateRevoked(certHash))
         ELSE UNCHANGED <<certificates, events>>

\* verifyCertificate of the variant has no modifier: it answers for every key
VariantVerifyCertificate(certHash) ==
  /\ lastCall = NoCall
  /\ prev' = Ledger
  /\ lastCall' = Call("verifyCertificate", ZeroAddress, certHash, EmptyString, NoRevert,
                      verifyCertificate(certHash))
  /\ UNCHANGED <<certificates, totalIssued, totalRevoked, events, blockTimestamp, handlers, blockchain, ui>>

CertificateExists(certHash) ==
  /\ lastCall = NoCall
  /\ prev' = Ledger
  /\ lastCall' = Call("certificateExists", ZeroAddress, certHash, EmptyString, NoRevert,
                      <<certificateExists(certHash)>>)
  /\ UNCHANGED <<certificates, totalIssued, totalRevoked, events, blockTimestamp, handlers, blockchain, ui>>

GetCertificateIssuer(certHash) ==
  /\ lastCall = NoCall
  /\ prev' = Ledger
  /\ lastCall' = Call("getCertificateIssuer", ZeroAddress, certHash, EmptyString, NoRevert,
                      <<getCertificateIssuer(certHash)>>)
  /\ UNCHANGED <<certificates, totalIssued, totalRevoked, events, blockTimestamp, handlers, blockchain, ui>>

VariantNext ==
  \/ \E s \in Senders, h \in Hashes, c \in CIDs : VariantIssueCertificate(s, h, c)
  \/ \E s \in Senders, h \in Hashes : VariantRevokeCertificate(s, h)
  \/ \E h \in Hashes : VariantVerifyCertificate(h)
  \/ \E h \in Hashes : CertificateExists(h)
  \/ \E h \in Hashes : GetCertificateIssuer(h)
  \/ Return /\ UNCHANGED <<handlers, blockchain, ui>>
  \/ MineBlock /\ UNCHANGED <<handlers, blockchain, ui>>

VariantSpec == Init /\ [][VariantNext]_vars

\* C27: in the variant that deletes on revoke, a revoke that goes through
\* leaves the default record, the record of a key that was never issued;
\* verifyCertificate and the helper views answer for such a key with zero
\* values; and an issue with a non-zero key and a non-empty CID goes through
\* whenever the key is not valid, also after a revoke and for any sender, who
\* becomes the issuer of the new record.
C27_RevokeErases ==
  /\ \A h \in Hashes :
       ~certificates[h].isValid
         => /\ certificates[h] = EmptyCertificate
            /\ verifyCertificate(h) = ZeroValueAnswer
            /\ getCertificateIssuer(h) = ZeroAddress
  /\ (lastCall.op = "revokeCertificate" /\ lastCall.status = NoRevert)
       => /\ prev.certificates[lastCall.certHash].isValid
          /\ certificates[lastCall.certHash] = EmptyCertificate
          /\ ~certificateExists(lastCall.certHash)
  /\ (lastCall.op = "verifyCertificate" /\ ~certificates[lastCall.certHash].isValid)
       => lastCall.ret = ZeroValueAnswer
  /\ lastCall.op = "issueCertificate"
       => /\ lastCall.status = NoRevert
              <=> /\ validHash(lastCall.certHash)
                  /\ validCID(lastCall.ipfsCID)
                  /\ ~prev.certificates[lastCall.certHash].isValid
          /\ lastCall.status = NoRevert
               => /\ certificates[lastCall.certHash].isValid
                  /\ certificates[lastCall.certHash].issuer = lastCall.sender
                  /\ certificates[lastCall.certHash].ipfsCID = lastCall.ipfsCID

\* C27 witness: a key that one account issued and revoked has just been
\* issued by the other account.
C27_Witness ==
  /\ lastCall.op = "issueCertificate"
  /\ lastCall.status = NoRevert
  /\ CopiesIn(CertificateRevoked(lastCall.certHash), events) > 0
  /\ \E e \in IssuedEvents(lastCall.certHash) : e.issuer # lastCall.sender
  /\ certificates[lastCall.certHash].issuer = lastCall.sender

\* C31: revokeCertificate checks the key, then that the record is valid, then
\* the caller: a call with the zero key reverts with the invalid-hash reason;
\* a call with a non-zero key that is Unknown or Revoked reverts with the
\* does-not-exist reason, whoever calls; the not-authorized reason is given
\* only for an Active key and a caller that is not its issuer, and for every
\* such call.
C31_RevokeCheckOrder ==
  lastCall.op = "revokeCertificate"
    => /\ lastCall.certHash = ZeroHash => lastCall.status = MsgInvalidHash
       /\ (lastCall.certHash # ZeroHash /\ PrevLifecycle \in {"Unknown", "Revoked"})
            => lastCall.status = MsgDoesNotExist
       /\ lastCall.status = MsgNotAuthorized
            <=> /\ lastCall.certHash # ZeroHash
                /\ PrevLifecycle = "Active"
                /\ PrevRecord.issuer # lastCall.sender
       /\ lastCall.status # NoRevert => Ledger = prev

\* C31 witness: an account that is not the issuer of a Revoked key called
\* revokeCertificate for it and got the does-not-exist reason.
C31_Witness ==
  /\ lastCall.op = "revokeCertificate"
  /\ PrevLifecycle = "Revoked"
  /\ PrevRecord.issuer # lastCall.sender
  /\ lastCall.status = MsgDoesNotExist

\* C32: a revoke request, by PDF or by QR code, whose lookup finds a key that
\* is Unknown or Revoked is answered 404 'Certificate does not exist' in the
\* step of its arrival, having called nothing but verifyCertificate, and the
\* ledger is as it was; the handler goes on to submit only for a key that the
\* lookup found Active, and revokeCertificate is called by a handler at its
\* submit only.
C32_RevokeOnlyActive ==
  [][\A r \in Handlers :
       /\ (/\ handlers[r].pc = "idle"
           /\ handlers'[r].route \in RevokeRoutes
           /\ handlers'[r].bytes32Hash # ZeroHash)
          => /\ Ledger' = Ledger
             /\ IF Lifecycle(handlers'[r].bytes32Hash) = "Active"
                THEN handlers'[r].pc = "submit"
                ELSE /\ handlers'[r].pc = "done"
                     /\ handlers'[r].response.statusCode = 404
                     /\ handlers'[r].response.message
                          = <<"Certificate", "does", "not", "exist">>
                     /\ ~handlers'[r].response.success
             /\ handlers'[r].calls = {"verifyCertificate"}
       /\ (/\ handlers'[r].route \in RevokeRoutes
           /\ "revokeCertificate" \in handlers'[r].calls
           /\ "revokeCertificate" \notin handlers[r].calls)
          => handlers[r].pc = "submit"
       /\ (handlers[r].route \in RevokeRoutes /\ handlers[r].pc = "done")
          => "revokeCertificate" \in handlers[r].calls
               \/ handlers[r].response.statusCode # 200]_vars

\* C32 witness: a revoke request by QR code for a Revoked key was answered 404
\* and has called verifyCertificate only.
C32_Witness ==
  \E r \in Handlers :
    /\ handlers[r].route = "revoke-qr"
    /\ handlers[r].pc = "done"
    /\ Lifecycle(handlers[r].bytes32Hash) = "Revoked"
    /\ handlers[r].response.statusCode = 404
    /\ handlers[r].calls = {"verifyCertificate"}

\* ------------------------------------------------------------------------
\* The start of the server (mainserver.js): startServer, initializeBlockchain
\* and the test of the variable contract at the head of every handler
\* ------------------------------------------------------------------------
\* what initializeBlockchain meets: a variable of the environment is missing
\* (or the key or the address is refused by its constructor), the node does
\* not answer provider.getBlockNumber(), or all is well
Environments == {"missing", "unreachable", "ready"}

\* initializeBlockchain: provider, wallet and contract are assigned before the
\* node is asked for its block number; any throw is caught and answered false
initializeBlockchain(environment) ==
  IF environment = "missing" THEN Blockchain(TRUE, FALSE, FALSE)
  ELSE IF environment = "unreachable" THEN Blockchain(TRUE, FALSE, TRUE)
  ELSE Blockchain(TRUE, TRUE, TRUE)

\* the module is loaded, startServer has not run
StartupInit ==
  /\ certificates = [h \in Hashes |-> EmptyCertificate]
  /\ totalIssued = 0
  /\ totalRevoked = 0
  /\ events = EmptyBag
  /\ blockTimestamp = 1
  /\ lastCall = NoCall
  /\ prev = [certificates |-> [h \in Hashes |-> EmptyCertificate], totalIssued |-> 0,
             totalRevoked |-> 0, events |-> EmptyBag]
  /\ handlers = [r \in Handlers |-> IdleHandler]
  /\ blockchain = Blockchain(FALSE, FALSE, FALSE)
  /\ ui = InitialUi

\* startServer: await initializeBlockchain(), then app.listen whatever it
\* returned
StartServer(environment) ==
  /\ ~blockchain.started
  /\ blockchain' = initializeBlockchain(environment)
  /\ UNCHANGED <<certificates, totalIssued, totalRevoked, events, blockTimestamp,
                 lastCall, prev, handlers, ui>>

\* if (!contract) return res.status(503)
Refuse(r, route) ==
  /\ Quiet
  /\ Free(r)
  /\ handlers' = [handlers EXCEPT ![r] =
       Respond([IdleHandler EXCEPT !.route = route],
               Response(503, FALSE, <<"Blockchain", "not", "initialized">>, NoData))]
  /\ UNCHANGED <<certificates, totalIssued, totalRevoked, events, blockTimestamp,
                 lastCall, prev>>

\* a handler of a listening server: the test of contract, then the handler
Listening(r, route, handler) ==
  /\ blockchain.started
  /\ IF blockchain.contract THEN handler ELSE Refuse(r, route)
  /\ UNCHANGED <<blockchain, ui>>

\* the answer of GET /
HealthResponse(connected) ==
  [statusCode |-> 200, success |-> TRUE, message |-> <<"API", "running">>,
   data |-> NoData, connected |-> connected]

\* GET /: blockchain.connected is contract !== undefined
Health(r) ==
  /\ blockchain.started
  /\ Quiet
  /\ Free(r)
  /\ handlers' = [handlers EXCEPT ![r] =
       Respond([IdleHandler EXCEPT !.route = "health"],
               HealthResponse(blockchain.contract))]
  /\ UNCHANGED <<certificates, totalIssued, totalRevoked, events, blockTimestamp,
                 lastCall, prev, blockchain, ui>>

\* the routes that work on the contract
LedgerRoutes ==
  {"issue-certificate", "verify-certificate", "verify-qr", "revoke-certificate",
   "revoke-qr", "certificate"}

\* the QR payloads sent to the starting server
StartupQrInputs == {NoQrData, QrData("certificate", HexOfKey(1))}

StartupNext ==
  \/ \E e \in Environments : StartServer(e)
  \/ \E r \in Handlers : Health(r)
  \/ \E r \in Handlers, f \in Files \cup {NoFile} :
       Listening(r, "issue-certificate", IssueCertificateRequest(r, f, ServerWallet))
  \/ \E r \in Handlers, f \in Files \cup {NoFile} :
       Listening(r, "verify-certificate", VerifyCertificateRequest(r, f))
  \/ \E r \in Handlers, q \in StartupQrInputs :
       Listening(r, "verify-qr", VerifyQrRequest(r, q))
  \/ \E r \in Handlers, f \in Files \cup {NoFile} :
       Listening(r, "revoke-certificate", RevokeCertificateRequest(r, f))
  \/ \E r \in Handlers, q \in StartupQrInputs :
       Listening(r, "revoke-qr", RevokeQrRequest(r, q))
  \/ \E r \in Handlers :
       Listening(r, "certificate", GetCertificateRequest(r, HexOfKey(1)))
  \/ \E r \in Handlers : UploadToPinata(r) /\ UNCHANGED <<blockchain, ui>>
  \/ \E r \in Handlers : SubmitIssue(r) /\ UNCHANGED <<blockchain, ui>>
  \/ \E r \in Handlers : IssueMined(r) /\ UNCHANGED <<blockchain, ui>>
  \/ \E r \in Handlers : IssueRespond(r) /\ UNCHANGED <<blockchain, ui>>
  \/ \E r \in Handlers : SubmitRevoke(r) /\ UNCHANGED <<blockchain, ui>>
  \/ \E r \in Handlers : RevokeMined(r) /\ UNCHANGED <<blockchain, ui>>
  \/ \E r \in Handlers : RevokeRespond(r) /\ UNCHANGED <<blockchain, ui>>
  \/ \E r \in Handlers : ResponseSent(r) /\ UNCHANGED <<blockchain, ui>>

StartupSpec == StartupInit /\ [][StartupNext]_vars

\* C34: when initializeBlockchain has returned false, every request to a
\* route that works on the contract is answered 503 'Blockchain not
\* initialized' without a call of the contract, and GET / answers
\* connected: false.
C34_NotInitializedRefuses ==
  (blockchain.started /\ ~blockchain.initialized)
    => \A r \in Handlers :
         /\ handlers[r].route \in LedgerRoutes
              => /\ handlers[r].pc = "done"
                 /\ handlers[r].response.statusCode = 503
                 /\ handlers[r].response.message = <<"Blockchain", "not", "initialized">>
                 /\ handlers[r].calls = {}
         /\ (handlers[r].route = "health" /\ handlers[r].pc = "done")
              => ~handlers[r].response.connected

\* ------------------------------------------------------------------------
\* The contract without CID (CertificateVerificationQR.sol) behind the server
\* with API key and status reporting (part_002)
\* ------------------------------------------------------------------------
QrMsgInvalidHash == <<"Invalid", "certificate", "hash", ":", "cannot", "be", "zero">>
QrMsgPreviouslyIssued == <<"Certificate", "was", "previously", "issued", "and", "revoked">>
QrMsgNotAuthorized ==
  <<"Not", "authorized", ":", "only", "the", "issuer", "can", "revoke", "this", "certificate">>

\* the struct Certificate of this contract and the default value of a slot
QrCertificate(isValid, issuer, issuedAt) ==
  [isValid |-> isValid, issuer |-> issuer, issuedAt |-> issuedAt]

QrEmptyCertificate == QrCertificate(FALSE, ZeroAddress, 0)

QrCertificateIssued(certHash, issuer, timestamp) ==
  [name |-> "CertificateIssued", certHash |-> certHash, issuer |-> issuer,
   timestamp |-> timestamp]

QrCertificateRevoked(certHash, revokedBy, timestamp) ==
  [name |-> "CertificateRevoked", certHash |-> certHash, issuer |-> revokedBy,
   timestamp |-> timestamp]

\* the reason issueCertificate(certHash) reverts with
QrIssueRevertReason(certHash) ==
  IF ~validHash(certHash) THEN QrMsgInvalidHash
  ELSE IF certificates[certHash].isValid THEN MsgAlreadyIssued
  ELSE IF certificates[certHash].issuer # ZeroAddress THEN QrMsgPreviouslyIssued
  ELSE NoRevert

\* the reason revokeCertificate(certHash) reverts with
QrRevokeRevertReason(certHash, sender) ==
  IF ~validHash(certHash) THEN QrMsgInvalidHash
  ELSE IF ~certificates[certHash].isValid THEN MsgDoesNotExist
  ELSE IF certificates[certHash].issuer # sender THEN QrMsgNotAuthorized
  ELSE NoRevert

\* verifyCertificate(certHash): the three values returned; the zero key reverts
QrVerifyRevertReason(certHash) ==
  IF ~validHash(certHash) THEN QrMsgInvalidHash ELSE NoRevert

QrVerifyCertificate(certHash) ==
  <<certificates[certHash].isValid, certificates[certHash].issuer,
    certificates[certHash].issuedAt>>

QrIssueCertificate(sender, certHash) ==
  LET reason == QrIssueRevertReason(certHash)
  IN  /\ lastCall = NoCall
      /\ prev' = Ledger
      /\ lastCall' = Call("issueCertificate", sender, certHash, EmptyString, reason, <<>>)
      /\ UNCHANGED <<totalRevoked, blockTimestamp>>
      /\ IF reason = NoRevert
         THEN /\ certificates' = StoreCertificate(certificates, certHash,
                                 QrCertificate(TRUE, sender, blockTimestamp))
              /\ totalIssued' = IssuedAfterIssue(totalIssued)
              /\ events' = Emit(QrCertificateIssued(certHash, sender, blockTimestamp))
         ELSE UNCHANGED <<certificates, totalIssued, events>>

QrRevokeCertificate(sender, certHash) ==
  LET reason == QrRevokeRevertReason(certHash, sender)
  IN  /\ lastCall = NoCall
      /\ prev' = Ledger
      /\ lastCall' = Call("revokeCertificate", sender, certHash, EmptyString, reason, <<>>)
      /\ UNCHANGED <<totalIssued, blockTimestamp>>
      /\ IF reason = NoRevert
         THEN /\ certificates' = StoreCertificate(certificates, certHash,
                                 RevokedCertificate(certificates[certHash]))
              /\ totalRevoked' = RevokedAfterRevoke(totalRevoked)
              /\ events' = Emit(QrCertificateRevoked(certHash, sender, blockTimestamp))
         ELSE UNCHANGED <<certificates, totalRevoked, events>>

\* process.env.API_KEY: not set, set to the empty string, or set to a key
ApiKeys == {"undefined", "", "k1"}

\* req.headers['x-api-key']: missing, the key, or another text
ApiKeyHeaders == {"undefined", "k1", "k2"}

\* authenticateAPI with every request let through
authenticateAPI_Open(apiKey, xApiKey) == TRUE

\* authenticateAPI: does the middleware call next()
authenticateAPI(apiKey, xApiKey) ==
  IF apiKey \in {"undefined", ""} THEN TRUE ELSE xApiKey = apiKey

\* the field status of the verify response, from the flag alone
VerificationStatus_FromValid(valid, issuedAt) == IF valid THEN "VALID" ELSE "NOT_FOUND"

\* valid ? 'VALID' : (issuedAt > 0 ? 'REVOKED' : 'NOT_FOUND')
VerificationStatus(valid, issuedAt) ==
  IF valid THEN "VALID" ELSE IF issuedAt > 0 THEN "REVOKED" ELSE "NOT_FOUND"

\* the status the revoke handler refuses with after its lookup, 0 when it
\* goes on
RevokeRefusal(valid, issuedAt) ==
  IF ~valid /\ issuedAt = 0 THEN 404 ELSE IF ~valid THEN 400 ELSE 0

\* a response of this server
StatusResponse(statusCode, success, message, status) ==
  [statusCode |-> statusCode, success |-> success, message |-> message, status |-> status]

NoStatusResponse == StatusResponse(0, FALSE, <<>>, "")

\* what a request to this server carries
StatusInput(file, xApiKey, hash) == [file |-> file, xApiKey |-> xApiKey, hash |-> hash]

\* the server process with its contract object and process.env.API_KEY
ServerProcess(apiKey) ==
  [started |-> TRUE, initialized |-> TRUE, contract |-> TRUE, apiKey |-> apiKey]

\* a handler of this server that works on no request
StatusIdle ==
  [pc |-> "idle", route |-> "none", input |-> StatusInput(NoFile, "undefined", <<>>),
   certHash |-> ZeroHash, receipt |-> "none", response |-> NoStatusResponse, calls |-> {}]

\* '0x' + hashHex, as the bytes32 argument of a call
CertHashOf(hashHex) == EncodeBytes32(HexPrefix \o hashHex).number

\* the 401 of authenticateAPI
Unauthorized ==
  StatusResponse(401, FALSE, <<"Unauthorized", ":", "Invalid", "or", "missing", "API", "key">>, "")

\* the 400 of a request without file
FileRequired == StatusResponse(400, FALSE, <<"PDF", "file", "is", "required">>, "")

\* the request after contract.verifyCertificate(certHash)
StatusLooked(request, certHash) ==
  [request EXCEPT !.certHash = certHash, !.calls = {"verifyCertificate"}]

StatusInit ==
  /\ certificates = [h \in Hashes |-> QrEmptyCertificate]
  /\ totalIssued = 0
  /\ totalRevoked = 0
  /\ events = EmptyBag
  /\ blockTimestamp = 1
  /\ lastCall = NoCall
  /\ prev = [certificates |-> [h \in Hashes |-> QrEmptyCertificate], totalIssued |-> 0,
             totalRevoked |-> 0, events |-> EmptyBag]
  /\ handlers = [r \in Handlers |-> StatusIdle]
  /\ blockchain \in {ServerProcess(apiKey) : apiKey \in ApiKeys}
  /\ ui = InitialUi

\* POST /api/issue-certificate: authenticateAPI, the file, the lookup and the
\* test of the record
StatusIssueRequest(r, file, xApiKey) ==
  LET request == [StatusIdle EXCEPT !.route = "issue-certificate",
                                    !.input = StatusInput(file, xApiKey, <<>>)]
      certHash == CertHashOf(generatePDFHash(file))
      found == QrVerifyCertificate(certHash)
  IN  /\ Quiet
      /\ Free(r)
      /\ handlers' = [handlers EXCEPT ![r] =
           IF ~authenticateAPI(blockchain.apiKey, xApiKey) THEN Respond(request, Unauthorized)
           ELSE IF file = NoFile THEN Respond(request, FileRequired)
           ELSE IF found[1] \/ found[3] > 0
             THEN Respond(StatusLooked(request, certHash),
                          StatusResponse(409, FALSE,
                            <<"Certificate", "already", "exists", "on", "blockchain">>, ""))
           ELSE GoOn(StatusLooked(request, certHash), "estimate")]
      /\ UNCHANGED <<certificates, totalIssued, totalRevoked, events, blockTimestamp,
                     lastCall, prev, blockchain, ui>>

\* await contract.issueCertificate.estimateGas(certHash), in its own try
StatusEstimateIssue(r) ==
  LET request == [handlers[r] EXCEPT !.calls = @ \cup {"estimateGas"}]
  IN  /\ Quiet
      /\ handlers[r].pc = "estimate"
      /\ handlers[r].route = "issue-certificate"
      /\ handlers' = [handlers EXCEPT ![r] =
           IF QrIssueRevertReason(request.certHash) # NoRevert
           THEN Respond(request,
                        StatusResponse(500, FALSE,
                          <<"Failed", "to", "estimate", "gas", "for", "transaction">>, ""))
           ELSE GoOn(request, "submit")]
      /\ UNCHANGED <<certificates, totalIssued, totalRevoked, events, blockTimestamp,
                     lastCall, prev, blockchain, ui>>

\* await contract.issueCertificate(certHash, {gasLimit}): the node takes the
\* transaction, or refuses it for lack of funds
StatusSubmitIssue(r) ==
  LET request == [handlers[r] EXCEPT !.calls = @ \cup {"issueCertificate"}]
  IN  /\ Quiet
      /\ handlers[r].pc = "submit"
      /\ handlers[r].route = "issue-certificate"
      /\ \/ handlers' = [handlers EXCEPT ![r] = GoOn(request, "wait")]
         \/ handlers' = [handlers EXCEPT ![r] =
              Respond(request,
                      StatusResponse(500, FALSE,
                        <<"Insufficient", "funds", "in", "wallet", "to", "pay", "for", "gas">>,
                        ""))]
      /\ UNCHANGED <<certificates, totalIssued, totalRevoked, events, blockTimestamp,
                     lastCall, prev, blockchain, ui>>

\* the ledger executes the transaction and tx.wait() returns or throws
\* CALL_EXCEPTION; the handler answers
StatusIssueMined(r) ==
  /\ handlers[r].pc = "wait"
  /\ handlers[r].route = "issue-certificate"
  /\ \A q \in Handlers : handlers[q].pc # "done"
  /\ QrIssueCertificate(ServerWallet, handlers[r].certHash)
  /\ handlers' = [handlers EXCEPT ![r] =
       IF lastCall'.status = NoRevert
       THEN Respond([handlers[r] EXCEPT !.receipt = "confirmed"],
                    StatusResponse(200, TRUE, <<"Certificate", "issued", "successfully">>, ""))
       ELSE Respond([handlers[r] EXCEPT !.receipt = "reverted"],
                    StatusResponse(400, FALSE,
                      <<"Transaction", "reverted", "by", "smart", "contract">>, ""))]
  /\ UNCHANGED <<blockchain, ui>>

\* POST /api/verify-certificate: no middleware in front of the handler
StatusVerifyRequest(r, file, xApiKey) ==
  LET request == [StatusIdle EXCEPT !.route = "verify-certificate",
                                    !.input = StatusInput(file, xApiKey, <<>>)]
      certHash == CertHashOf(generatePDFHash(file))
      found == QrVerifyCertificate(certHash)
  IN  /\ Quiet
      /\ Free(r)
      /\ handlers' = [handlers EXCEPT ![r] =
           IF file = NoFile THEN Respond(request, FileRequired)
           ELSE Respond(StatusLooked(request, certHash),
                        StatusResponse(200, TRUE, <<>>,
                                       VerificationStatus(found[1], found[3])))]
      /\ UNCHANGED <<certificates, totalIssued, totalRevoked, events, blockTimestamp,
                     lastCall, prev, blockchain, ui>>

\* POST /api/revoke-certificate: authenticateAPI, the file, the lookup and the
\* two tests of the record
StatusRevokeRequest(r, file, xApiKey) ==
  LET request == [StatusIdle EXCEPT !.route = "revoke-certificate",
                                    !.input = StatusInput(file, xApiKey, <<>>)]
      certHash == CertHashOf(generatePDFHash(file))
      found == QrVerifyCertificate(certHash)
      refusal == RevokeRefusal(found[1], found[3])
  IN  /\ Quiet
      /\ Free(r)
      /\ handlers' = [handlers EXCEPT ![r] =
           IF ~authenticateAPI(blockchain.apiKey, xApiKey) THEN Respond(request, Unauthorized)
           ELSE IF file = NoFile THEN Respond(request, FileRequired)
           ELSE IF refusal = 404
             THEN Respond(StatusLooked(request, certHash),
                          StatusResponse(404, FALSE,
                            <<"Certificate", "not", "found", "on", "blockchain">>, ""))
           ELSE IF refusal = 400
             THEN Respond(StatusLooked(request, certHash),
                          StatusResponse(400, FALSE,
                            <<"Certificate", "is", "already", "revoked">>, ""))
           ELSE GoOn(StatusLooked(request, certHash), "estimate")]
      /\ UNCHANGED <<certificates, totalIssued, totalRevoked, events, blockTimestamp,
                     lastCall, prev, blockchain, ui>>

\* the catch block of the revoke handler for an error that is not
\* INSUFFICIENT_FUNDS
RevokeFailed == StatusResponse(500, FALSE, <<"Failed", "to", "revoke", "certificate">>, "")

\* await contract.revokeCertificate.estimateGas(certHash): a revert is thrown
\* into the catch block of the handler
StatusEstimateRevoke(r) ==
  LET request == [handlers[r] EXCEPT !.calls = @ \cup {"estimateGas"}]
  IN  /\ Quiet
      /\ handlers[r].pc = "estimate"
      /\ handlers[r].route = "revoke-certificate"
      /\ handlers' = [handlers EXCEPT ![r] =
           IF QrRevokeRevertReason(request.certHash, ServerWallet) # NoRevert
           THEN Respond(request, RevokeFailed)
           ELSE GoOn(request, "submit")]
      /\ UNCHANGED <<certificates, totalIssued, totalRevoked, events, blockTimestamp,
                     lastCall, prev, blockchain, ui>>

\* await contract.revokeCertificate(certHash, {gasLimit})
StatusSubmitRevoke(r) ==
  LET request == [handlers[r] EXCEPT !.calls = @ \cup {"revokeCertificate"}]
  IN  /\ Quiet
      /\ handlers[r].pc = "submit"
      /\ handlers[r].route = "revoke-certificate"
      /\ \/ handlers' = [handlers EXCEPT ![r] = GoOn(request, "wait")]
         \/ handlers' = [handlers EXCEPT ![r] =
              Respond(request,
                      StatusResponse(500, FALSE,
                        <<"Insufficient", "funds", "in", "wallet", "to", "pay", "for", "gas">>,
                        ""))]
      /\ UNCHANGED <<certificates, totalIssued, totalRevoked, events, blockTimestamp,
                     lastCall, prev, blockchain, ui>>

\* the ledger executes the revoke transaction; the handler answers
StatusRevokeMined(r) ==
  /\ handlers[r].pc = "wait"
  /\ handlers[r].route = "revoke-certificate"
  /\ \A q \in Handlers : handlers[q].pc # "done"
  /\ QrRevokeCertificate(ServerWallet, handlers[r].certHash)
  /\ handlers' = [handlers EXCEPT ![r] =
       IF lastCall'.status = NoRevert
       THEN Respond([handlers[r] EXCEPT !.receipt = "confirmed"],
                    StatusResponse(200, TRUE, <<"Certificate", "revoked", "successfully">>, ""))
       ELSE Respond([handlers[r] EXCEPT !.receipt = "reverted"], RevokeFailed)]
  /\ UNCHANGED <<blockchain, ui>>

\* req.params.hash.replace('0x', ''): the first '0x' of the text is removed,
\* wherever it stands
RemoveFirst0x(text) ==
  LET at == {i \in 1..(Len(text) - 1) : SubSeq(text, i, i + 1) = HexPrefix}
  IN  IF at = {} THEN text
      ELSE LET i == CHOOSE k \in at : \A j \in at : k <= j
           IN  SubSeq(text, 1, i - 1) \o SubSeq(text, i + 2, Len(text))

\* /^[a-fA-F0-9]{64}$/.test(hashHex)
IsKeyHex(hashHex) ==
  Len(hashHex) = KeyHexLen /\ \A i \in 1..Len(hashHex) : IsHexChar(hashHex[i])

\* GET /api/certificate/:hash: no middleware in front of the handler
StatusGetRequest(r, hash, xApiKey) ==
  LET request == [StatusIdle EXCEPT !.route = "certificate",
                                    !.input = StatusInput(NoFile, xApiKey, hash)]
      hashHex == RemoveFirst0x(hash)
      certHash == CertHashOf(hashHex)
      found == QrVerifyCertificate(certHash)
  IN  /\ Quiet
      /\ Free(r)
      /\ handlers' = [handlers EXCEPT ![r] =
           IF ~IsKeyHex(hashHex)
             THEN Respond(request,
                          StatusResponse(400, FALSE,
                            <<"Invalid", "certificate", "hash", "format">>, ""))
           ELSE IF QrVerifyRevertReason(certHash) # NoRevert
             THEN Respond(StatusLooked(request, certHash),
                          StatusResponse(500, FALSE,
                            <<"Failed", "to", "fetch", "certificate">>, ""))
           ELSE IF found[3] = 0
             THEN Respond(StatusLooked(request, certHash),
                          StatusResponse(404, FALSE, <<"Certificate", "not", "found">>, ""))
           ELSE Respond(StatusLooked(request, certHash),
                        StatusResponse(200, TRUE, <<>>,
                                       IF found[1] THEN "VALID" ELSE "REVOKED"))]
      /\ UNCHANGED <<certificates, totalIssued, totalRevoked, events, blockTimestamp,
                     lastCall, prev, blockchain, ui>>

\* the client has the response, and the outcome of the transaction is taken
StatusResponseSent(r) ==
  /\ handlers[r].pc = "done"
  /\ handlers' = [handlers EXCEPT ![r] = StatusIdle]
  /\ lastCall' = NoCall
  /\ prev' = Ledger
  /\ UNCHANGED <<certificates, totalIssued, totalRevoked, events, blockTimestamp,
                 blockchain, ui>>

\* the key texts sent to GET /api/certificate/:hash of this server
StatusKeyStrings ==
  {HexOfKey(ZeroHash), HexOfKey(1), HexPrefix \o HexOfKey(2),
   SubSeq(HexOfKey(1), 1, KeyHexLen - 1)}

StatusNext ==
  \/ \E r \in Handlers, f \in Files \cup {NoFile}, x \in ApiKeyHeaders :
       StatusIssueRequest(r, f, x)
  \/ \E r \in Handlers : StatusEstimateIssue(r)
  \/ \E r \in Handlers : StatusSubmitIssue(r)
  \/ \E r \in Handlers : StatusIssueMined(r)
  \/ \E r \in Handlers, f \in Files \cup {NoFile}, x \in ApiKeyHeaders :
       StatusVerifyRequest(r, f, x)
  \/ \E r \in Handlers, f \in Files \cup {NoFile}, x \in ApiKeyHeaders :
       StatusRevokeRequest(r, f, x)
  \/ \E r \in Handlers : StatusEstimateRevoke(r)
  \/ \E r \in Handlers : StatusSubmitRevoke(r)
  \/ \E r \in Handlers : StatusRevokeMined(r)
  \/ \E r \in Handlers, s \in StatusKeyStrings, x \in ApiKeyHeaders :
       StatusGetRequest(r, s, x)
  \/ \E r \in Handlers : StatusResponseSent(r)
  \/ \E h \in FileKeys :
       Quiet /\ QrIssueCertificate(OtherAccount, h) /\ UNCHANGED <<handlers, blockchain, ui>>
  \/ \E h \in FileKeys :
       Quiet /\ QrRevokeCertificate(OtherAccount, h)
         /\ UNCHANGED <<handlers, blockchain, ui>>
  \/ DirectReturn

StatusSpec == StatusInit /\ [][StatusNext]_vars


\* ------------------------------------------------------------------------
\* Properties of the status-reporting server
\* ------------------------------------------------------------------------
\* the step on which handler r takes a request in
Arrives(r) == handlers[r].pc = "idle" /\ handlers'[r].pc # "idle"

\* C33: on the status-reporting server over the contract that keeps revoked
\* records, a verify request with a file is answered with status VALID exactly
\* when the key of the file is Active, REVOKED exactly when it is Revoked and
\* NOT_FOUND exactly when it is Unknown; a revoke request with a file that
\* passes the API-key middleware is answered 404 for an Unknown key and 400
\* 'Certificate is already revoked' for a Revoked key, after the lookup alone,
\* and goes on to the gas estimate for an Active key; none of these steps
\* changes the ledger
C33_StatusMatchesLifecycle ==
  [][\A r \in Handlers :
       (Arrives(r) /\ handlers'[r].input.file # NoFile) =>
         LET request == handlers'[r]
             state == Lifecycle(Sha256(request.input.file))
         IN  /\ request.route = "verify-certificate" =>
                  /\ request.pc = "done"
                  /\ request.response.statusCode = 200
                  /\ request.response.status = "VALID" <=> state = "Active"
                  /\ request.response.status = "REVOKED" <=> state = "Revoked"
                  /\ request.response.status = "NOT_FOUND" <=> state = "Unknown"
                  /\ request.calls = {"verifyCertificate"}
                  /\ Ledger' = Ledger
             /\ (request.route = "revoke-certificate" /\ request.response.statusCode # 401) =>
                  /\ state = "Unknown" =>
                       /\ request.pc = "done"
                       /\ request.response.statusCode = 404
                  /\ state = "Revoked" =>
                       /\ request.pc = "done"
                       /\ request.response.statusCode = 400
                       /\ request.response.message
                            = <<"Certificate", "is", "already", "revoked">>
                  /\ state = "Active" => request.pc = "estimate"
                  /\ request.calls = {"verifyCertificate"}
                  /\ Ledger' = Ledger]_vars

\* a verify request for a revoked certificate has been answered REVOKED and a
\* revoke request for it is refused as already revoked
C33_Witness ==
  \E r \in Handlers :
    /\ handlers[r].pc = "done"
    /\ handlers[r].route \in {"verify-certificate", "revoke-certificate"}
    /\ handlers[r].input.file # NoFile
    /\ Lifecycle(Sha256(handlers[r].input.file)) = "Revoked"
    /\ \/ handlers[r].response.status = "REVOKED"
       \/ handlers[r].response.message = <<"Certificate", "is", "already", "revoked">>
    /\ totalRevoked > 0

\* process.env.API_KEY is set to a key
ApiKeyConfigured == blockchain.apiKey \notin {"undefined", ""}

\* the routes with authenticateAPI in front of the handler
GatedRoutes == {"issue-certificate", "revoke-certificate"}

\* C35: on the API-key server, with API_KEY configured, an issue or revoke
\* request whose x-api-key header is missing or differs from the key is
\* answered 401 with no contract call made for it; with API_KEY not configured
\* no request is answered 401; a verify or get-by-hash request is never
\* answered 401, whatever its header
C35_ApiKeyGate ==
  \A r \in Handlers :
    handlers[r].pc # "idle" =>
      /\ (handlers[r].route \in GatedRoutes /\ ApiKeyConfigured
            /\ handlers[r].input.xApiKey # blockchain.apiKey) =>
           /\ handlers[r].pc = "done"
           /\ handlers[r].response = Unauthorized
           /\ handlers[r].calls = {}
      /\ (handlers[r].route \in GatedRoutes /\ ApiKeyConfigured
            /\ handlers[r].input.xApiKey = blockchain.apiKey) =>
           handlers[r].response.statusCode # 401
      /\ ~ApiKeyConfigured => handlers[r].response.statusCode # 401
      /\ handlers[r].route \notin GatedRoutes => handlers[r].response.statusCode # 401
      /\ handlers[r].response.statusCode = 401 => handlers[r].calls = {}

\* with a key configured, a request to issue a file with another key in its
\* header has been answered 401
C35_Witness ==
  \E r \in Handlers :
    /\ handlers[r].pc = "done"
    /\ handlers[r].route = "issue-certificate"
    /\ handlers[r].input.file # NoFile
    /\ ApiKeyConfigured
    /\ handlers[r].input.xApiKey = "k2"
    /\ handlers[r].response.statusCode = 401


\* ------------------------------------------------------------------------
\* The browser UI: verification and revocation by QR image (Appqr.js)
\* ------------------------------------------------------------------------
\* what the user can pick in the file dialog: nothing, a file that is not an
\* image, an image with the QR code of a certificate, an image with a QR code
\* of other JSON, an image with a QR code of plain text, an image without QR
\* code, a file of an image type whose content does not decode, and an image
\* file that cannot be read
UiFiles ==
  {"none", "text", "qrCertificate", "qrOther", "qrText", "noQr", "corrupt", "unreadable"}

\* selectedFile && selectedFile.type.startsWith('image/')
IsImageFile(file) == file \notin {"none", "text"}

\* FileReader.readAsDataURL ends with the load event; otherwise with the error
\* event
ReaderLoads(file) == file # "unreadable"

\* img.src = e.target.result ends with the load event of the image;
\* otherwise with its error event
ImageLoads(file) == file # "corrupt"

\* jsQR(imageData.data, width, height): the text of the QR code in the
\* picture, NoQrData for null
jsQR(file) ==
  CASE file = "qrCertificate" -> QrData("certificate", HexOfKey(1))
    [] file = "qrOther" -> QrData("other", HexOfKey(1))
    [] file = "qrText" -> NotJson
    [] OTHER -> NoQrData

\* the test of revokeWithQRData on the text of the QR code: JSON.parse throws,
\* or parsed.type !== 'certificate' || !parsed.hash
InvalidQrFormat(qrData) ==
  ~qrData.json \/ qrData.type # "certificate" \/ qrData.hash = <<>>

\* the body of an answer of the server: success and message
UiAnswer(success, message) == [success |-> success, message |-> message]

\* the answers of /api/verify-qr and /api/revoke-qr the UI tells apart
UiAnswers ==
  {UiAnswer(TRUE, <<>>),
   UiAnswer(FALSE, <<"Certificate", "does", "not", "exist">>),
   UiAnswer(FALSE, <<>>)}

MsgSelectImage == <<"Please", "select", "a", "valid", "image", "file">>
MsgSelectValidPdf == <<"Please", "select", "a", "valid", "PDF", "file">>
MsgSelectPdf == <<"Please", "select", "a", "PDF", "file">>
MsgNoQrFound == <<"No", "QR", "code", "found", "in", "the", "image">>
MsgNetworkError == <<"Network", "error">>
MsgInvalidQrFormat == <<"Invalid", "QR", "code", "format">>

\* data.message || 'Failed to verify certificate'
MessageOr(message, mode) ==
  IF message # <<>> THEN message ELSE <<"Failed", "to", mode, "certificate">>

\* the processing of the image has no callback left to run
UiSettled(state) == [state EXCEPT !.pc = "idle", !.mode = "none", !.image = "none"]

\* processQRImage(imageFile, mode) up to reader.readAsDataURL(imageFile)
processQRImage(state, imageFile, mode) ==
  [state EXCEPT !.loading = TRUE, !.pc = "reading", !.mode = mode, !.image = imageFile]

\* the state of the ledger and the server, which the UI does not touch
UiUnchanged ==
  UNCHANGED <<certificates, totalIssued, totalRevoked, events, blockTimestamp, lastCall,
              prev, handlers, blockchain>>

\* handleQRImageChange (mode verify) and handleRevokeQRImageChange (mode
\* revoke), with one image in processing at a time
handleQRImageChange(selectedFile, mode) ==
  /\ ui.pc = "idle"
  /\ ui' = IF IsImageFile(selectedFile)
           THEN processQRImage([ui EXCEPT !.qrImage = selectedFile, !.error = <<>>,
                                          !.result = "none"],
                               selectedFile, mode)
           ELSE [ui EXCEPT !.error = MsgSelectImage, !.qrImage = "none"]
  /\ UiUnchanged

\* selectedFile && selectedFile.type === 'application/pdf'
IsPdfFile(file) == file = "pdf"

\* handleFileChange: the PDF file of the verify and revoke forms
handleFileChange(selectedFile) ==
  /\ ui' = IF IsPdfFile(selectedFile)
           THEN [ui EXCEPT !.file = selectedFile, !.error = <<>>, !.result = "none"]
           ELSE [ui EXCEPT !.error = MsgSelectValidPdf, !.file = "none"]
  /\ UiUnchanged

\* handleVerifyCertificate and handleRevokeCertificate up to their fetch; the
\* buttons that call them are disabled while loading is true
handlePdfCertificate(mode) ==
  /\ ui.pc = "idle"
  /\ ~ui.loading
  /\ ui' = IF ui.file = "none"
           THEN [ui EXCEPT !.error = MsgSelectPdf]
           ELSE [ui EXCEPT !.loading = TRUE, !.error = <<>>, !.result = "none",
                           !.pc = "fetching", !.mode = mode]
  /\ UiUnchanged

\* reader.onload: img.onload is set and img.src assigned
ReaderOnLoad ==
  /\ ui.pc = "reading"
  /\ ReaderLoads(ui.image)
  /\ ui' = [ui EXCEPT !.pc = "decoding"]
  /\ UiUnchanged

\* the error event of the reader: no reader.onerror is set
ReaderOnError ==
  /\ ui.pc = "reading"
  /\ ~ReaderLoads(ui.image)
  /\ ui' = UiSettled(ui)
  /\ UiUnchanged

\* img.onload: jsQR on the pixels, then verifyWithQRData or revokeWithQRData
\* up to its fetch, or the message that no code was found
ImageOnLoad ==
  LET code == jsQR(ui.image)
  IN  /\ ui.pc = "decoding"
      /\ ImageLoads(ui.image)
      /\ ui' = IF ~code.given
               THEN UiSettled([ui EXCEPT !.error = MsgNoQrFound, !.loading = FALSE])
               ELSE IF ui.mode = "revoke" /\ InvalidQrFormat(code)
               THEN UiSettled([ui EXCEPT !.error = MsgInvalidQrFormat, !.loading = FALSE])
               ELSE [ui EXCEPT !.pc = "fetching"]
      /\ UiUnchanged

\* the error event of the image: no img.onerror is set
ImageOnError ==
  /\ ui.pc = "decoding"
  /\ ~ImageLoads(ui.image)
  /\ ui' = UiSettled(ui)
  /\ UiUnchanged

\* the fetch of a verify or revoke request is answered: the result or the
\* message, and the finally block
FetchAnswered(data) ==
  /\ ui.pc = "fetching"
  /\ ui' = UiSettled(
             IF data.success
             THEN IF ui.image = "none"
                  THEN [ui EXCEPT !.result = ui.mode, !.file = "none", !.loading = FALSE]
                  ELSE [ui EXCEPT !.result = ui.mode, !.qrImage = "none",
                                  !.loading = FALSE]
             ELSE [ui EXCEPT !.error = MessageOr(data.message, ui.mode),
                             !.loading = FALSE])
  /\ UiUnchanged

\* the fetch rejects: the catch block and the finally block
FetchFailed ==
  /\ ui.pc = "fetching"
  /\ ui' = UiSettled([ui EXCEPT !.error = MsgNetworkError, !.loading = FALSE])
  /\ UiUnchanged

\* resetForm: result, error, file and qrImage are cleared
resetForm ==
  /\ ui' = [ui EXCEPT !.result = "none", !.error = <<>>, !.file = "none",
                      !.qrImage = "none"]
  /\ UiUnchanged

UiNext ==
  \/ \E f \in UiFiles, mode \in {"verify", "revoke"} : handleQRImageChange(f, mode)
  \/ \E f \in {"none", "text", "pdf"} : handleFileChange(f)
  \/ \E mode \in {"verify", "revoke"} : handlePdfCertificate(mode)
  \/ ReaderOnLoad
  \/ ReaderOnError
  \/ ImageOnLoad
  \/ ImageOnError
  \/ \E data \in UiAnswers : FetchAnswered(data)
  \/ FetchFailed
  \/ resetForm

UiSpec == Init /\ [][UiNext]_vars

\* C36: in the browser UI, whenever the processing of a selected QR image has
\* no callback left to run, loading is false: every outcome of processQRImage
\* has set it back
C36_LoadingReturns == ui.pc = "idle" => ~ui.loading

=============================================================================
